---- MODULE Spec2Model ----
(***************************************************************************)
(* A model of slvcodec's core: the width expressions of math_parser, the   *)
(* typed codec of typs (to_slv / from_slv), the entity level codec of      *)
(* entity, and the dependency resolvers of resolution and package.         *)
(*                                                                         *)
(* Python values are modelled as tagged records:                           *)
(*   None            [t |-> "None"]                                        *)
(*   an int n        [t |-> "int",  v |-> n]                               *)
(*   a str s         [t |-> "str",  v |-> s]                               *)
(*   a list          [t |-> "list", v |-> <<...>>]                         *)
(*   a dict          [t |-> "dict", v |-> [key |-> value, ...]]            *)
(* A bit string is a sequence over {"0", "1", "U"}.  A call that can raise *)
(* returns [ok |-> TRUE, v |-> result] or [ok |-> FALSE, err |-> name of   *)
(* the exception].                                                         *)
(***************************************************************************)
EXTENDS Integers, Sequences, FiniteSets, TLC

(***************************************************************************)
(* Bounds of the model.                                                    *)
(***************************************************************************)
\* Largest size of a std_logic_vector / unsigned / signed, and largest value
\* given to the generic "length".
MaxSize == 2
\* Largest number of elements of a constrained array.
MaxLen == 2
\* Longest string given to from_slv on its own.
MaxString == 3

(***************************************************************************)
(* Python helpers.                                                         *)
(***************************************************************************)
None == [t |-> "None"]
PyInt(n) == [t |-> "int", v |-> n]
PyStr(s) == [t |-> "str", v |-> s]
PyList(s) == [t |-> "list", v |-> s]
PyDict(f) == [t |-> "dict", v |-> f]

Ok(x) == [ok |-> TRUE, v |-> x]
Raise(e) == [ok |-> FALSE, err |-> e]

\* An assignment, name = expression, followed by the statements that use
\* the name: Let(expression, LAMBDA name: statements) is the value of the
\* statements with name bound to the value of the expression.
Let(expression, statements(_)) == statements(expression)

Min(a, b) == IF a < b THEN a ELSE b
Max(a, b) == IF a > b THEN a ELSE b

RECURSIVE Pow2(_)
Pow2(n) == IF n <= 0 THEN 1 ELSE 2 * Pow2(n - 1)

RECURSIVE IntPow(_, _)
IntPow(b, n) == IF n <= 0 THEN 1 ELSE b * IntPow(b, n - 1)

\* Python's s[i:j] for integers i and j (negative indices count from the end,
\* out of range indices are clipped).
PyIndex(len, i) == IF i < 0 THEN Max(len + i, 0) ELSE Min(i, len)
PySlice(s, i, j) ==
    LET a == PyIndex(Len(s), i)
        b == PyIndex(Len(s), j)
    IN  IF a >= b THEN <<>> ELSE SubSeq(s, a + 1, b)
\* s[i:]
PySliceFrom(s, i) == PySlice(s, i, Len(s))
\* s[:j]
PySliceTo(s, j) == PySlice(s, 0, j)

\* reversed(s) as a sequence.
Reversed(s) == [i \in 1..Len(s) |-> s[Len(s) + 1 - i]]

\* ''.join(list of strings)
RECURSIVE Join(_)
Join(ss) == IF ss = <<>> THEN <<>> ELSE Head(ss) \o Join(Tail(ss))

\* 'U' * n (the empty string for n <= 0)
Repeat(c, n) == [i \in 1..n |-> c]

(***************************************************************************)
(* math_parser: expressions.  An int n is [k |-> "num", n |-> n], a float  *)
(* is the fraction it stands for, in lowest terms with q > 0 (2.0 is       *)
(* Float(2, 1)), a str is Name(s), a typs.Generic object is                *)
(* [k |-> "generic", name |-> ...].  The number of a Term is an int or a   *)
(* float; the number of a Power is an integer, as in every Power that the  *)
(* parser and simplify build.  The numerals of the specifications are 0    *)
(* and powers of two, so that every float is held exactly.  An exception   *)
(* that leaves parse or simplify is the tree Raised(class name).           *)
(***************************************************************************)
Num(n) == [k |-> "num", n |-> n]
Float(p, q) == [k |-> "float", p |-> p, q |-> q]
Name(s) == [k |-> "name", name |-> s]
Generic(name) == [k |-> "generic", name |-> name]
Power(number, expression) ==
    [k |-> "power", number |-> number, expression |-> expression]
Multiplication(powers) == [k |-> "mul", powers |-> powers]
Term(number, expression) ==
    [k |-> "term", number |-> number, expression |-> expression]
Addition(terms) == [k |-> "add", terms |-> terms]
Function(name, arguments) ==
    [k |-> "function", name |-> name, arguments |-> arguments]
Expression(items) == [k |-> "expression", items |-> items]
Unknown(items) == [k |-> "unknown", items |-> items]
Raised(err) == [k |-> "raise", err |-> err]

IsRaised(item) == item.k = "raise"
\* The exceptions among the items, in order.
Raises(items) == SelectSeq(items, IsRaised)

\* Python's arithmetic on int and float: int with int is an int, anything
\* with a float is a float.
Numerator(v) == IF v.k = "num" THEN v.n ELSE v.p
Denominator(v) == IF v.k = "num" THEN 1 ELSE v.q
Abs(n) == IF n < 0 THEN -n ELSE n
RECURSIVE Gcd(_, _)
Gcd(a, b) == IF b = 0 THEN a ELSE Gcd(b, a % b)
\* The float p / q, q # 0.
Ratio(p, q) ==
    LET g == Gcd(Abs(p), Abs(q))
    IN  IF q < 0 THEN Float((-p) \div g, (-q) \div g)
        ELSE Float(p \div g, q \div g)
NumberEq(a, b) == Numerator(a) * Denominator(b) = Numerator(b) * Denominator(a)
NumberLe(a, b) == Numerator(a) * Denominator(b) <= Numerator(b) * Denominator(a)
NumberMul(a, b) ==
    IF a.k = "num" /\ b.k = "num" THEN Num(a.n * b.n)
    ELSE Ratio(Numerator(a) * Numerator(b), Denominator(a) * Denominator(b))
NumberAdd(a, b) ==
    IF a.k = "num" /\ b.k = "num" THEN Num(a.n + b.n)
    ELSE Ratio(Numerator(a) * Denominator(b) + Numerator(b) * Denominator(a),
               Denominator(a) * Denominator(b))
\* pow(base, number) for an integer number: a negative power is a float,
\* and fails on 0.
pow(base, number) ==
    IF number >= 0
    THEN IF base.k = "num" THEN Ok(Num(IntPow(base.n, number)))
         ELSE Ok(Ratio(IntPow(base.p, number), IntPow(base.q, number)))
    ELSE IF Numerator(base) = 0 THEN Raise("ZeroDivisionError")
    ELSE Ok(Ratio(IntPow(Denominator(base), -number),
                  IntPow(Numerator(base), -number)))
\* int(v): towards zero.  math.ceil(v): upwards.
int(v) ==
    IF Numerator(v) >= 0 THEN Numerator(v) \div Denominator(v)
    ELSE -((-Numerator(v)) \div Denominator(v))
ceil(v) == -((-Numerator(v)) \div Denominator(v))

\* as_number on a number: a float that equals its int is that int.  (A str
\* that reads as a number is a number too: the model holds such a str as
\* the number it reads as.)
as_number(v) == IF v.k = "float" /\ v.q = 1 THEN Num(v.p) ELSE v
is_number(item) == item.k \in {"num", "float"}

\* math_parser.logceil on integers: 1 up to 2, else ceil(log2(argument)).
RECURSIVE CeilLog2(_, _)
CeilLog2(argument, w) ==
    IF Pow2(w) >= argument THEN w ELSE CeilLog2(argument, w + 1)
logceil(argument) == IF argument <= 2 THEN 1 ELSE CeilLog2(argument, 0)

\* The registered functions the model keeps: logceil of one argument and
\* maximum (max) of two or more.
REGISTERED_FUNCTIONS == {"logceil", "maximum"}
RECURSIVE max(_)
max(arguments) ==
    IF Len(arguments) = 1 THEN arguments[1]
    ELSE LET rest == max(Tail(arguments))
         IN  IF NumberLe(rest, Head(arguments)) THEN Head(arguments) ELSE rest
\* REGISTERED_FUNCTIONS[name](*arguments) on numbers.
CallRegistered(name, arguments) ==
    IF name = "logceil"
    THEN IF Len(arguments) = 1 THEN Ok(Num(logceil(ceil(arguments[1]))))
         ELSE Raise("TypeError")
    ELSE IF Len(arguments) >= 2 THEN Ok(max(arguments))
         ELSE Raise("TypeError")

\* Python's == on expressions: a namedtuple is equal to any tuple of equal
\* items, whatever its class (Term(2, x) == Power(2, x)), and an int to the
\* float of the same value.  AsTuple is the tuple an item is compared as.
RECURSIVE AsTuple(_)
AsTuple(item) ==
    CASE is_number(item) ->
            [k |-> "number", p |-> Numerator(item), q |-> Denominator(item)]
      [] item.k = "power" ->
            [k |-> "tuple",
             items |-> <<[k |-> "number", p |-> item.number, q |-> 1],
                         AsTuple(item.expression)>>]
      [] item.k = "term" ->
            [k |-> "tuple",
             items |-> <<AsTuple(item.number), AsTuple(item.expression)>>]
      [] item.k = "function" ->
            [k |-> "tuple",
             items |-> <<Name(item.name),
                         [k |-> "tuple",
                          items |-> [i \in 1..Len(item.arguments) |->
                                        AsTuple(item.arguments[i])]]>>]
      [] item.k = "mul" ->
            [k |-> "tuple",
             items |-> <<[k |-> "tuple",
                          items |-> [i \in 1..Len(item.powers) |->
                                        AsTuple(item.powers[i])]]>>]
      [] item.k = "add" ->
            [k |-> "tuple",
             items |-> <<[k |-> "tuple",
                          items |-> [i \in 1..Len(item.terms) |->
                                        AsTuple(item.terms[i])]]>>]
      [] item.k = "expression" ->
            [k |-> "tuple",
             items |-> <<[k |-> "tuple",
                          items |-> [i \in 1..Len(item.items) |->
                                        AsTuple(item.items[i])]]>>]
      [] item.k = "unknown" ->
            [k |-> "tuple", items |-> <<AsTuple(item.items)>>]
      [] OTHER -> item
PyEq(a, b) == AsTuple(a) = AsTuple(b)

\* value: get_value(item), the number itself or as_number(item.value()), or
\* the exception raised on the way.  A str that is no number and a Generic
\* object have no value method.
RECURSIVE value(_), ProductValue(_), SumValue(_), ArgumentValues(_)
value(item) ==
    CASE is_number(item) -> Ok(as_number(item))
      [] item.k = "power" ->
            Let(value(item.expression), LAMBDA e:
            Let(pow(e.v, item.number), LAMBDA r:
                IF ~e.ok THEN e ELSE IF ~r.ok THEN r ELSE Ok(as_number(r.v))))
      [] item.k = "term" ->
            Let(value(item.expression), LAMBDA e:
                IF ~e.ok THEN e ELSE Ok(as_number(NumberMul(item.number, e.v))))
      [] item.k = "mul" ->
            Let(ProductValue(item.powers), LAMBDA r:
                IF ~r.ok THEN r ELSE Ok(as_number(r.v)))
      [] item.k = "add" ->
            Let(SumValue(item.terms), LAMBDA r:
                IF ~r.ok THEN r ELSE Ok(as_number(r.v)))
      [] item.k = "function" ->
            Let(ArgumentValues(item.arguments), LAMBDA arguments:
            Let(CallRegistered(item.name, arguments.v), LAMBDA r:
                IF ~arguments.ok THEN arguments
                ELSE IF item.name \notin REGISTERED_FUNCTIONS
                     THEN Raise("MathParsingError")
                ELSE IF ~r.ok THEN r ELSE Ok(as_number(r.v))))
      [] item.k \in {"expression", "unknown"} -> Raise("MathParsingError")
      [] OTHER -> Raise("AttributeError")
ProductValue(powers) ==
    IF powers = <<>> THEN Ok(Num(1))
    ELSE Let(value(Head(powers)), LAMBDA h:
         Let(ProductValue(Tail(powers)), LAMBDA r:
             IF ~h.ok THEN h ELSE IF ~r.ok THEN r ELSE Ok(NumberMul(h.v, r.v))))
SumValue(terms) ==
    IF terms = <<>> THEN Ok(Num(0))
    ELSE Let(value(Head(terms)), LAMBDA h:
         Let(SumValue(Tail(terms)), LAMBDA r:
             IF ~h.ok THEN h ELSE IF ~r.ok THEN r ELSE Ok(NumberAdd(h.v, r.v))))
ArgumentValues(arguments) ==
    IF arguments = <<>> THEN Ok(<<>>)
    ELSE Let(value(Head(arguments)), LAMBDA h:
         Let(ArgumentValues(Tail(arguments)), LAMBDA r:
             IF ~h.ok THEN h ELSE IF ~r.ok THEN r ELSE Ok(<<h.v>> \o r.v)))

\* get_value where an int is needed (a size, a width): the value when it is
\* an int; a value that is no int is the failure NotAnInteger.
get_value(item) ==
    Let(value(item), LAMBDA v:
        IF ~v.ok THEN v
        ELSE IF v.v.k = "num" THEN Ok(v.v.n) ELSE Raise("NotAnInteger"))

\* make_substitute_generics_function(d)(item): every Generic object whose
\* name is a key of d is replaced by d's value, others are left.
RECURSIVE substitute_generics(_, _)
substitute_generics(d, item) ==
    CASE item.k = "generic" ->
            IF item.name \in DOMAIN d THEN Num(d[item.name]) ELSE item
      [] item.k = "power" ->
            Power(item.number, substitute_generics(d, item.expression))
      [] item.k = "term" ->
            Term(item.number, substitute_generics(d, item.expression))
      [] item.k = "mul" ->
            Multiplication([i \in 1..Len(item.powers) |->
                               substitute_generics(d, item.powers[i])])
      [] item.k = "add" ->
            Addition([i \in 1..Len(item.terms) |->
                         substitute_generics(d, item.terms[i])])
      [] OTHER -> item

apply_generics(generics, expression) ==
    get_value(substitute_generics(generics, expression))


(***************************************************************************)
(* math_parser.simplify.  An OrderedDict is a sequence of records          *)
(* [key, val] in insertion order.                                          *)
(***************************************************************************)
max_simplifications == 5

\* The position of key in the ordered dict d, or 0.
RECURSIVE OdIndex(_, _)
OdIndex(d, key) ==
    IF d = <<>> THEN 0
    ELSE IF d[Len(d)].key = key THEN Len(d)
    ELSE OdIndex(SubSeq(d, 1, Len(d) - 1), key)

\* d[key] = val: a new key goes last, an old key keeps its place.
OdSet(d, key, val) ==
    IF OdIndex(d, key) = 0 THEN Append(d, [key |-> key, val |-> val])
    ELSE [d EXCEPT ![OdIndex(d, key)].val = val]

\* The same for a dict whose keys are expressions: they are compared with
\* Python's ==.
RECURSIVE ExpressionIndex(_, _)
ExpressionIndex(d, key) ==
    IF d = <<>> THEN 0
    ELSE IF PyEq(d[Len(d)].key, key) THEN Len(d)
    ELSE ExpressionIndex(SubSeq(d, 1, Len(d) - 1), key)
ExpressionSet(d, key, val) ==
    IF ExpressionIndex(d, key) = 0 THEN Append(d, [key |-> key, val |-> val])
    ELSE [d EXCEPT ![ExpressionIndex(d, key)].val = val]

RECURSIVE simplify(_), SimplifyLoop(_, _), SimplifyPass(_), str_expression(_)
RECURSIVE MultiplicationSimplify(_), AdditionSimplify(_), FunctionSimplify(_)
RECURSIVE CollectPowers(_, _), ExpandTerms(_), CollectTerms(_, _)

\* A simplify of one pass only.
SimplifyOnce(old_value, left) == SimplifyPass(old_value)

\* logger.warning('...'.format(str_expression(new_value))) and the return
\* that follows it: the text of the warning is made by str_expression, and
\* what str_expression raises leaves simplify.
warning(new_value) ==
    Let(str_expression(new_value), LAMBDA s:
        IF s.ok THEN new_value ELSE Raised(s.err))

\* simplify: at most max_simplifications passes, stopping at the first pass
\* that returns a value equal to its input; hit_limit is still True after
\* a last pass that has changed the value.
simplify(item) == SimplifyLoop(item, max_simplifications)
SimplifyLoop(old_value, left) ==
    Let(SimplifyPass(old_value), LAMBDA new_value:
        IF IsRaised(new_value) \/ PyEq(old_value, new_value) THEN new_value
        ELSE IF left <= 1 THEN warning(new_value)
        ELSE SimplifyLoop(new_value, left - 1))
\* One pass: item.simplify() when the item has one, else
\* transform(item, simplify).
SimplifyPass(item) ==
    CASE item.k = "mul" -> MultiplicationSimplify(item)
      [] item.k = "add" -> AdditionSimplify(item)
      [] item.k = "function" -> FunctionSimplify(item)
      [] item.k \in {"power", "term"} ->
            Let(simplify(item.expression), LAMBDA expression:
                IF IsRaised(expression) THEN expression
                ELSE [item EXCEPT !.expression = expression])
      [] item.k = "expression" ->
            Let([i \in 1..Len(item.items) |->
                    simplify(item.items[i])], LAMBDA new_items:
                IF Raises(new_items) # <<>> THEN Head(Raises(new_items))
                ELSE IF Len(new_items) = 1 THEN new_items[1]
                ELSE Expression(new_items))
      [] OTHER -> item

\* The loop of Multiplication.simplify over the powers: acc.pure is the
\* product of the numeric powers (or the exception of a pow), acc.new_powers
\* the ordered dict from an expression to the sum of its exponents.
CollectPowers(powers, acc) ==
    IF powers = <<>> THEN acc
    ELSE LET power == Head(powers)
         IN  Let(ExpressionIndex(acc.new_powers, power.expression), LAMBDA at:
         LET old_number == IF at = 0 THEN 0 ELSE acc.new_powers[at].val
         IN  Let(pow(as_number(power.expression), power.number), LAMBDA power_value:
             IF IsRaised(acc.pure) THEN acc
             ELSE IF is_number(power.expression)
             THEN CollectPowers(Tail(powers),
                    [acc EXCEPT !.pure = IF power_value.ok
                                         THEN NumberMul(@, power_value.v)
                                         ELSE Raised(power_value.err)])
             ELSE CollectPowers(Tail(powers),
                    [acc EXCEPT !.new_powers =
                        ExpressionSet(@, power.expression, old_number + power.number)])))

MultiplicationSimplify(item) ==
    Let([i \in 1..Len(item.powers) |->
            Power(item.powers[i].number,
                  simplify(item.powers[i].expression))], LAMBDA powers:
    LET raised == Raises([i \in 1..Len(powers) |-> powers[i].expression])
    IN  Let(CollectPowers(powers, [pure |-> Num(1), new_powers |-> <<>>]), LAMBDA acc:
    LET Relevant(entry) == entry.val # 0
        kept == SelectSeq(acc.new_powers, Relevant)
        relevant_powers == [i \in 1..Len(kept) |-> Power(kept[i].val, kept[i].key)]
        m == IF Len(relevant_powers) = 0 THEN Num(1)
             ELSE IF Len(relevant_powers) = 1
                  THEN IF relevant_powers[1].number = 1
                       THEN relevant_powers[1].expression
                       ELSE relevant_powers[1]
             ELSE Multiplication(relevant_powers)
    IN  IF raised # <<>> THEN Head(raised)
        ELSE IF IsRaised(acc.pure) THEN acc.pure
        ELSE IF ~NumberEq(acc.pure, Num(1))
        THEN IF PyEq(m, Num(1)) THEN acc.pure
             ELSE Addition(<<Term(acc.pure, m)>>)
        ELSE m))

\* The terms of an Addition with nested Additions and Terms brought in.
ExpandTerms(terms) ==
    IF terms = <<>> THEN <<>>
    ELSE LET term == Head(terms)
         IN  Let(CASE term.expression.k = "add" ->
                        [i \in 1..Len(term.expression.terms) |->
                            Term(NumberMul(term.number,
                                           term.expression.terms[i].number),
                                 term.expression.terms[i].expression)]
                   [] term.expression.k = "term" ->
                        <<Term(NumberMul(term.number, term.expression.number),
                               term.expression.expression)>>
                   [] OTHER -> <<term>>, LAMBDA here:
             here \o ExpandTerms(Tail(terms)))

\* The terms kept apart, every one an entry of its own.
CollectTermsApart(terms, acc) ==
    [acc EXCEPT !.d = @ \o [i \in 1..Len(terms) |->
                              [key |-> terms[i].expression, val |-> terms[i].number]]]

\* The loop of Addition.simplify over (number, expression): acc.int_part is
\* the sum of int(e) * n over the numeric terms, acc.d the ordered dict from
\* an expression to the sum of its coefficients.
CollectTerms(terms, acc) ==
    IF terms = <<>> THEN acc
    ELSE LET n == Head(terms).number
             e == Head(terms).expression
         IN  Let(ExpressionIndex(acc.d, e), LAMBDA at:
             IF is_number(e)
             THEN CollectTerms(Tail(terms),
                    [acc EXCEPT !.int_part = NumberAdd(@, NumberMul(Num(int(e)), n))])
             ELSE CollectTerms(Tail(terms),
                    [acc EXCEPT !.d = IF at = 0 THEN ExpressionSet(@, e, n)
                                      ELSE ExpressionSet(@, e, NumberAdd(@[at].val, n))]))

AdditionSimplify(item) ==
    Let([i \in 1..Len(item.terms) |-> simplify(item.terms[i])], LAMBDA terms:
    Let(CollectTerms(ExpandTerms(terms), [int_part |-> Num(0), d |-> <<>>]), LAMBDA acc:
    Let(ExpressionSet(acc.d, acc.int_part, Num(1)), LAMBDA d:
    LET Cleaned(entry) ==
            /\ ~NumberEq(entry.val, Num(0))
            /\ ~PyEq(entry.key, Num(0))
    IN  Let(SelectSeq(d, Cleaned), LAMBDA cleaned_d:
        IF Raises(terms) # <<>> THEN Head(Raises(terms))
        ELSE IF Len(cleaned_d) = 1
        THEN IF NumberEq(cleaned_d[1].val, Num(1)) THEN cleaned_d[1].key
             ELSE Addition(<<Term(cleaned_d[1].val, cleaned_d[1].key)>>)
        ELSE IF cleaned_d = <<>> THEN Num(0)
        ELSE Addition([i \in 1..Len(cleaned_d) |->
                          Term(cleaned_d[i].val, cleaned_d[i].key)])))))

\* Function.simplify: a registered function of numbers is called.
FunctionSimplify(item) ==
    Let([i \in 1..Len(item.arguments) |->
            simplify(item.arguments[i])], LAMBDA arguments:
    Let(CallRegistered(item.name, arguments), LAMBDA o:
        IF Raises(arguments) # <<>> THEN Head(Raises(arguments))
        ELSE IF /\ \A i \in 1..Len(arguments) : is_number(arguments[i])
                /\ item.name \in REGISTERED_FUNCTIONS
             THEN IF o.ok THEN o.v ELSE Raised(o.err)
        ELSE Function(item.name, arguments)))

(***************************************************************************)
(* math_parser.str_expression.  A str of an expression is the sequence of  *)
(* the tokens tokenize_string cuts it into, each numeral held as the       *)
(* number parse_integers reads it as: a name or an operator is Name(s), a  *)
(* number that is not negative is itself, a negative one is a '-' and its  *)
(* magnitude.  The value returned is PyStr(tokens), or NotStr(number) where *)
(* the code returns a number that is no str.                               *)
(***************************************************************************)
NotStr(number) == [t |-> "number", v |-> number]
IsToken(item, s) == item.k = "name" /\ item.name = s
Negated(v) == IF v.k = "num" THEN Num(-v.n) ELSE Float(-v.p, v.q)
\* str(v), and '{}'.format(v), of a number.
NumberTokens(v) ==
    IF Numerator(v) < 0 THEN <<Name("-"), as_number(Negated(v))>>
    ELSE <<as_number(v)>>

\* The first failure among results.
FirstRaise(results) ==
    results[CHOOSE i \in 1..Len(results) :
                /\ ~results[i].ok
                /\ \A j \in 1..(i - 1) : results[j].ok]
RECURSIVE Interleave(_, _)
Interleave(sep, texts) ==
    IF texts = <<>> THEN <<>>
    ELSE IF Len(texts) = 1 THEN texts[1]
    ELSE texts[1] \o sep \o Interleave(sep, Tail(texts))
\* sep.join(results): every result is computed first, and join fails on
\* what is no str.
StrJoin(sep, results) ==
    IF \E i \in 1..Len(results) : ~results[i].ok THEN FirstRaise(results)
    ELSE IF \E i \in 1..Len(results) : results[i].v.t # "str"
         THEN Raise("TypeError")
    ELSE Ok(PyStr(Interleave(sep, [i \in 1..Len(results) |-> results[i].v.v])))

RECURSIVE AdditionStrLoop(_, _, _)
RECURSIVE Power_str_expression(_), Term_str_expression(_)
str_expression(item) ==
    CASE item.k = "name" -> Ok(PyStr(<<item>>))
      [] is_number(item) -> Ok(PyStr(NumberTokens(item)))
      [] item.k = "power" -> Power_str_expression(item)
      [] item.k = "term" -> Term_str_expression(item)
      [] item.k = "mul" ->
            StrJoin(<<Name("*")>>, [i \in 1..Len(item.powers) |->
                                       str_expression(item.powers[i])])
      [] item.k = "add" ->
            Let(AdditionStrLoop(item.terms, <<>>, TRUE), LAMBDA s:
                IF ~s.ok \/ Len(item.terms) <= 1 THEN s
                ELSE Ok(PyStr(<<Name("(")>> \o s.v.v \o <<Name(")")>>)))
      [] item.k = "function" ->
            Let(StrJoin(<<Name(",")>>,
                        [i \in 1..Len(item.arguments) |->
                            str_expression(item.arguments[i])]), LAMBDA arguments:
                IF ~arguments.ok THEN arguments
                ELSE Ok(PyStr(<<Name(item.name), Name("(")>> \o arguments.v.v
                              \o <<Name(")")>>)))
      [] item.k = "expression" ->
            StrJoin(<<>>, [i \in 1..Len(item.items) |->
                              str_expression(item.items[i])])
      [] item.k = "generic" -> Ok(PyStr(<<Name(item.name)>>))
      [] OTHER -> Raise("MathParsingError")

Power_str_expression(self) ==
    Let(str_expression(self.expression), LAMBDA s:
    LET absnumber == Abs(self.number)
    IN  IF self.number = 1 THEN s
        ELSE IF self.number = 0 \/ PyEq(self.expression, Num(1))
             THEN Ok(PyStr(<<Num(1)>>))
        ELSE IF self.number > 0
             THEN StrJoin(<<Name("*")>>, [i \in 1..absnumber |-> s])
        ELSE StrJoin(<<Name("/")>>,
                     <<Ok(PyStr(<<Num(1)>>))>> \o [i \in 1..absnumber |-> s]))

Term_str_expression(self) ==
    Let(str_expression(self.expression), LAMBDA s:
        IF NumberEq(self.number, Num(1)) THEN s
        ELSE IF NumberEq(self.number, Num(-1))
             THEN IF ~s.ok THEN s
                  ELSE IF s.v.t # "str" THEN Raise("TypeError")
                  ELSE Ok(PyStr(<<Name("-")>> \o s.v.v))
        ELSE IF NumberEq(self.number, Num(0)) THEN Ok(PyStr(<<Num(0)>>))
        ELSE IF PyEq(self.expression, Num(1)) THEN Ok(NotStr(self.number))
        ELSE IF ~s.ok THEN s
        ELSE Ok(PyStr(NumberTokens(self.number) \o <<Name("*")>>
                      \o (IF s.v.t = "str" THEN s.v.v ELSE NumberTokens(s.v.v)))))

\* The loop of Addition.str_expression: st[0] needs a str that is not empty.
AdditionStrLoop(terms, s, first) ==
    IF terms = <<>> THEN Ok(PyStr(s))
    ELSE Let(str_expression(Head(terms)), LAMBDA st:
         LET prefix == IF IsToken(st.v.v[1], "-") \/ first THEN <<>>
                       ELSE <<Name("+")>>
         IN  IF ~st.ok THEN st
             ELSE IF st.v.t # "str" THEN Raise("TypeError")
             ELSE IF st.v.v = <<>> THEN Raise("IndexError")
             ELSE AdditionStrLoop(Tail(terms), s \o prefix \o st.v.v, FALSE))

(***************************************************************************)
(* math_parser.parse, on Expression(tokens).  A numeral among the tokens   *)
(* is the number parse_integers makes of it, so that parse_integers is     *)
(* left with Expression.transform: an Expression of one item becomes that  *)
(* item.  Each later stage is the method of Expression on an Expression    *)
(* and transform(item, stage) on anything else.                            *)
(***************************************************************************)
\* No item: None where the code holds an item or None.
NoItem == [k |-> "none"]
\* str.isalpha of the first character of a token: no operator, no bracket.
IsAlpha(s) == s \notin {"+", "-", "*", "/", "(", ")", ","}

RECURSIVE parse_stage(_, _), ParseItems(_, _)
RECURSIVE ParenthesesLoop(_, _, _, _), FunctionsLoop(_, _, _)
RECURSIVE ArgumentsLoop(_, _, _), MultiplicationLoop(_, _, _)
RECURSIVE FromItemsLoop(_, _), AdditionLoop(_, _, _)

\* [stage(item) for item in items], or the exception of the first that fails.
ParseItems(stage, items) ==
    Let([i \in 1..Len(items) |-> parse_stage(stage, items[i])], LAMBDA done:
        IF Raises(done) # <<>> THEN Head(Raises(done)) ELSE Expression(done))

\* Expression.parse_parentheses: the items between a '(' and its ')' become
\* an Expression, parsed in turn.
ParenthesesLoop(items, open_braces, stack, new_expression) ==
    IF items = <<>>
    THEN IF open_braces > 0 THEN Raised("MathParsingError")
         ELSE Expression(new_expression)
    ELSE LET item == Head(items)
         IN  Let(ParenthesesLoop(stack, 0, <<>>, <<>>), LAMBDA sub_expression:
         Let(parse_stage("parentheses", item), LAMBDA other:
             IF IsToken(item, "(")
             THEN ParenthesesLoop(Tail(items), open_braces + 1,
                                  IF open_braces = 0 THEN <<>>
                                  ELSE Append(stack, item),
                                  new_expression)
             ELSE IF IsToken(item, ")")
             THEN IF open_braces = 1
                  THEN IF IsRaised(sub_expression) THEN sub_expression
                       ELSE ParenthesesLoop(Tail(items), 0, <<>>,
                                            Append(new_expression, sub_expression))
                  ELSE IF open_braces = 0 THEN Raised("MathParsingError")
                  ELSE ParenthesesLoop(Tail(items), open_braces - 1,
                                       Append(stack, item), new_expression)
             ELSE IF open_braces > 0
             THEN ParenthesesLoop(Tail(items), open_braces,
                                  Append(stack, item), new_expression)
             ELSE IF IsRaised(other) THEN other
             ELSE ParenthesesLoop(Tail(items), 0, stack,
                                  Append(new_expression, other))))

\* The arguments of a function: the items between the commas, one item as
\* it is and several as an Expression; no argument may be empty.
ArgumentsLoop(subitems, argument, arguments) ==
    LET added == IF Len(argument) = 1 THEN Append(arguments, argument[1])
                 ELSE Append(arguments, Expression(argument))
    IN  IF subitems = <<>>
        THEN IF argument = <<>> THEN Raised("AssertionError")
             ELSE Expression(added)
        ELSE IF IsToken(Head(subitems), ",")
        THEN IF argument = <<>> THEN Raised("AssertionError")
             ELSE ArgumentsLoop(Tail(subitems), <<>>, added)
        ELSE ArgumentsLoop(Tail(subitems), Append(argument, Head(subitems)),
                           arguments)

\* Expression.parse_functions: a name followed by an Expression is a
\* Function of the Expression's items.
FunctionsLoop(items, last_item, new_items) ==
    IF items = <<>>
    THEN Expression(IF last_item = NoItem THEN new_items
                    ELSE Append(new_items, last_item))
    ELSE LET item == Head(items)
             arguments == ArgumentsLoop(item.items, <<>>, <<>>)
         IN  IF /\ last_item.k = "name"
                /\ IsAlpha(last_item.name)
                /\ item.k = "expression"
             THEN IF IsRaised(arguments) THEN arguments
                  ELSE FunctionsLoop(Tail(items), NoItem,
                         Append(new_items,
                                Function(last_item.name, arguments.items)))
             ELSE FunctionsLoop(Tail(items), item,
                                IF last_item = NoItem THEN new_items
                                ELSE Append(new_items, last_item))

\* Multiplication.from_items after its two assertions: the first item, then
\* pairs of an operator and an item.
FromItemsLoop(items, powers) ==
    IF items = <<>> THEN Multiplication(powers)
    ELSE IF IsToken(items[1], "*")
         THEN FromItemsLoop(SubSeq(items, 3, Len(items)),
                            Append(powers, Power(1, items[2])))
    ELSE IF IsToken(items[1], "/")
         THEN FromItemsLoop(SubSeq(items, 3, Len(items)),
                            Append(powers, Power(-1, items[2])))
    ELSE Raised("ValueError")
from_items(items) ==
    IF Len(items) % 2 # 1 \/ Len(items) < 3 THEN Raised("AssertionError")
    ELSE FromItemsLoop(Tail(items), <<Power(1, Head(items))>>)

\* Expression.finish_multiplication_term
finish_multiplication_term(items) ==
    IF \E i \in 1..Len(items) : IsToken(items[i], "*") \/ IsToken(items[i], "/")
    THEN <<from_items(items)>>
    ELSE items

\* Expression.parse_multiplication: the items between two signs that hold a
\* '*' or a '/' become a Multiplication.
MultiplicationLoop(items, done, possible_multiplication) ==
    Let(finish_multiplication_term(possible_multiplication), LAMBDA finished:
    LET item == Head(items)
    IN  Let(parse_stage("multiplication", item), LAMBDA other:
        IF Raises(finished) # <<>> /\ (items = <<>> \/ IsToken(item, "-")
                                       \/ IsToken(item, "+"))
        THEN Head(Raises(finished))
        ELSE IF items = <<>>
        THEN IF Len(done \o finished) = 1 THEN (done \o finished)[1]
             ELSE Expression(done \o finished)
        ELSE IF IsToken(item, "-") \/ IsToken(item, "+")
        THEN MultiplicationLoop(Tail(items), (done \o finished) \o <<item>>, <<>>)
        ELSE IF IsRaised(other) THEN other
        ELSE MultiplicationLoop(Tail(items), done,
                                Append(possible_multiplication, other))))

\* Expression.parse_addition after the items are parsed: sign is 0 for None;
\* an item with no sign before it makes the whole Unknown, a sign with no
\* item after it fails the assertion.
AdditionLoop(items, sign, terms) ==
    IF items = <<>>
    THEN IF sign # 0 THEN Raised("AssertionError") ELSE Addition(terms)
    ELSE LET item == Head(items)
         IN  IF IsToken(item, "+")
             THEN AdditionLoop(Tail(items), IF sign = 0 THEN 1 ELSE sign, terms)
             ELSE IF IsToken(item, "-")
             THEN AdditionLoop(Tail(items), IF sign = 0 THEN -1 ELSE -sign, terms)
             ELSE IF sign = 0 THEN Unknown(item)
             ELSE AdditionLoop(Tail(items), 0, Append(terms, Term(Num(sign), item)))

parse_stage(stage, item) ==
    CASE item.k = "expression" /\ stage = "integers" ->
            IF Len(item.items) = 1 THEN item.items[1] ELSE item
      [] item.k = "expression" /\ stage = "parentheses" ->
            ParenthesesLoop(item.items, 0, <<>>, <<>>)
      [] item.k = "expression" /\ stage = "functions" ->
            Let(ParseItems(stage, item.items), LAMBDA items:
                IF IsRaised(items) THEN items
                ELSE FunctionsLoop(items.items, NoItem, <<>>))
      [] item.k = "expression" /\ stage = "multiplication" ->
            MultiplicationLoop(item.items, <<>>, <<>>)
      [] item.k = "expression" /\ stage = "addition" ->
            Let(ParseItems(stage, item.items), LAMBDA items:
                IF item.items = <<>> THEN Addition(<<>>)
                ELSE IF IsRaised(items) THEN items
                ELSE AdditionLoop(items.items, 1, <<>>))
      [] item.k = "function" ->
            Let(ParseItems(stage, item.arguments), LAMBDA arguments:
                IF IsRaised(arguments) THEN arguments
                ELSE Function(item.name, arguments.items))
      [] item.k \in {"power", "term"} ->
            Let(parse_stage(stage, item.expression), LAMBDA expression:
                IF IsRaised(expression) THEN expression
                ELSE [item EXCEPT !.expression = expression])
      [] item.k = "mul" ->
            Let(ParseItems(stage, item.powers), LAMBDA powers:
                IF IsRaised(powers) THEN powers
                ELSE Multiplication(powers.items))
      [] item.k = "add" ->
            Let(ParseItems(stage, item.terms), LAMBDA terms:
                IF IsRaised(terms) THEN terms ELSE Addition(terms.items))
      [] OTHER -> item

RECURSIVE Stages(_, _)
Stages(stages, item) ==
    IF stages = <<>> \/ IsRaised(item) THEN item
    ELSE Stages(Tail(stages), parse_stage(Head(stages), item))
parse(item) ==
    Stages(<<"integers", "parentheses", "functions", "multiplication",
             "addition">>, item)

\* parse_string on the tokens of a str.
parse_string(s) == parse(Expression(s))

\* parse_and_simplify(s) on what str_expression returned: '' is refused, and
\* what is no str cannot be tokenized.
parse_and_simplify(s) ==
    IF s.t # "str" THEN Raised("TypeError")
    ELSE IF s.v = <<>> THEN Raised("ValueError")
    ELSE simplify(parse_string(s.v))

(***************************************************************************)
(* typs: the resolved types.  Each constructor sets the fields its         *)
(* __init__ sets.  ConstrainedUnsigned inherits every method of            *)
(* ConstrainedStdLogicVector and is the same kind here.                    *)
(***************************************************************************)

\* str.lower() on the literals the model uses.
Lower(s) ==
    CASE s = "RED" -> "red"
      [] s = "GREEN" -> "green"
      [] s = "BLUE" -> "blue"
      [] s = "BLACK" -> "black"
      [] OTHER -> s

StdLogic == [kind |-> "std_logic", width |-> Num(1)]
ConstrainedStdLogicVector(size) ==
    [kind |-> "std_logic_vector", size |-> size, width |-> size]
ConstrainedSigned(size) ==
    [kind |-> "signed", size |-> size, width |-> size,
     max_value |-> Pow2(get_value(size).v - 1) - 1,
     min_value |-> -Pow2(get_value(size).v - 1)]
\* The subtype is that of the unconstrained Array the ConstrainedArray wraps.
ConstrainedArray(size, subtype) ==
    [kind |-> "array", size |-> size, subtype |-> subtype,
     width |-> Multiplication(<<Power(1, size), Power(1, subtype.width)>>)]
Record(names_and_subtypes) ==
    [kind |-> "record", names_and_subtypes |-> names_and_subtypes,
     width |-> simplify(Addition([i \in 1..Len(names_and_subtypes) |->
                                     Term(Num(1), names_and_subtypes[i].subtype.width)]))]
Enumeration(literals) ==
    [kind |-> "enumeration",
     literals |-> [i \in 1..Len(literals) |-> Lower(literals[i])],
     width |-> Num(logceil(Len(literals)))]

\* A (name, subtype) pair of a record.
Field(name, subtype) == [name |-> name, subtype |-> subtype]

(***************************************************************************)
(* conversions                                                             *)
(***************************************************************************)
\* uint_to_slv(uint, width) for an integer uint: the low width bits, most
\* significant first.
uint_to_slv(uint, width) ==
    Reversed([w \in 1..width |->
                 IF (uint \div Pow2(w - 1)) % 2 = 1 THEN "1" ELSE "0"])

\* slv_to_uint: None as soon as a character is not '0' or '1'.
RECURSIVE BinaryValue(_)
BinaryValue(slv) ==
    IF slv = <<>> THEN 0
    ELSE 2 * BinaryValue(SubSeq(slv, 1, Len(slv) - 1))
         + (IF slv[Len(slv)] = "1" THEN 1 ELSE 0)
slv_to_uint(slv) ==
    IF \E i \in 1..Len(slv) : slv[i] \notin {"0", "1"} THEN None
    ELSE PyInt(BinaryValue(slv))

(***************************************************************************)
(* typs: to_slv                                                            *)
(***************************************************************************)
\* A StdLogic.to_slv that writes nothing for an undefined value.
StdLogic_to_slv_skips_undefined(data, allow_undefined) ==
    IF data \notin {PyInt(0), PyInt(1), None} THEN Raise("ToSlvError")
    ELSE IF data = PyInt(1) THEN Ok(<<"1">>)
    ELSE IF data = PyInt(0) THEN Ok(<<"0">>)
    ELSE Ok(<<>>)

StdLogic_to_slv(data, allow_undefined) ==
    IF data \notin {PyInt(0), PyInt(1), None} THEN Raise("ToSlvError")
    ELSE IF data = PyInt(1) THEN Ok(<<"1">>)
    ELSE IF data = PyInt(0) THEN Ok(<<"0">>)
    ELSE IF allow_undefined THEN Ok(<<"U">>)
    ELSE Raise("AssertionError")

\* A ConstrainedStdLogicVector.to_slv that keeps the low bits of any int.
ConstrainedStdLogicVector_to_slv_wraps(typ, data, generics, allow_undefined) ==
    Let(apply_generics(generics, typ.size), LAMBDA size:
        IF data = None THEN Ok(Repeat("U", size.v))
        ELSE Ok(uint_to_slv(data.v % Pow2(size.v), size.v)))

ConstrainedStdLogicVector_to_slv(typ, data, generics, allow_undefined) ==
    Let(apply_generics(generics, typ.size), LAMBDA size:
    LET max_value == Pow2(size.v) - 1
        bits == [i \in 1..size.v |-> (data.v \div Pow2(i - 1)) % 2]
    IN  IF ~size.ok THEN size
        ELSE IF data = None
             THEN IF allow_undefined THEN Ok(Repeat("U", size.v))
                  ELSE Raise("AssertionError")
        ELSE IF data.t # "int" THEN Raise("ToSlvError")
        ELSE IF data.v < 0 \/ data.v > max_value THEN Raise("ToSlvError")
        ELSE IF data.v \div Pow2(size.v) # 0 THEN Raise("AssertionError")
        ELSE Ok(Join([i \in 1..size.v |->
                        StdLogic_to_slv(PyInt(Reversed(bits)[i]), allow_undefined).v])))

ConstrainedSigned_to_slv(typ, data, generics, allow_undefined) ==
    Let(apply_generics(generics, typ.size), LAMBDA size:
        IF ~size.ok THEN size
        ELSE IF data = None
             THEN IF allow_undefined THEN Ok(Repeat("U", size.v))
                  ELSE Raise("AssertionError")
        ELSE IF data.t # "int" THEN Raise("TypeError")
        ELSE IF data.v < typ.min_value \/ data.v > typ.max_value
             THEN Raise("ToSlvError")
        ELSE ConstrainedStdLogicVector_to_slv(
                 typ, IF data.v < 0 THEN PyInt(data.v + Pow2(size.v)) ELSE data,
                 generics, allow_undefined))

Enumeration_to_slv(typ, data, allow_undefined) ==
    IF data = None
    THEN IF allow_undefined THEN Ok(Repeat("U", typ.width.n))
         ELSE Raise("AssertionError")
    ELSE IF data.t # "str" THEN Raise("AttributeError")
    ELSE IF ~\E i \in 1..Len(typ.literals) : typ.literals[i] = Lower(data.v)
         THEN Raise("ToSlvError")
    ELSE LET index == CHOOSE i \in 1..Len(typ.literals) :
                         /\ typ.literals[i] = Lower(data.v)
                         /\ \A j \in 1..(i - 1) : typ.literals[j] # Lower(data.v)
         IN  Ok(uint_to_slv(index - 1, typ.width.n))

\* The first failure of a sequence of results, or the sequence of values.
RECURSIVE AllOk(_)
AllOk(results) ==
    IF results = <<>> THEN Ok(<<>>)
    ELSE IF ~Head(results).ok THEN Head(results)
    ELSE Let(AllOk(Tail(results)), LAMBDA rest:
             IF ~rest.ok THEN rest ELSE Ok(<<Head(results).v>> \o rest.v))

RECURSIVE to_slv(_, _, _, _)
RECURSIVE Array_to_slv(_, _, _, _), ConstrainedArray_to_slv(_, _, _, _)
RECURSIVE Record_to_slv(_, _, _, _)

\* An Array.to_slv that keeps the elements in index order.
Array_to_slv_in_order(subtype, data, generics, allow_undefined) ==
    IF data = None THEN Raise("ToSlvError")
    ELSE Let(AllOk([i \in 1..Len(data.v) |->
                      to_slv(subtype, data.v[i], generics, allow_undefined)]), LAMBDA slvs:
             IF ~slvs.ok THEN slvs ELSE Ok(Join(slvs.v)))

\* A Record.to_slv that keeps the fields in declaration order.
Record_to_slv_in_order(typ, data, generics, allow_undefined) ==
    LET nas == typ.names_and_subtypes
        d == IF data = None THEN PyDict(<<>>) ELSE data
        names == {nas[i].name : i \in 1..Len(nas)}
        Get(name) == IF name \in DOMAIN d.v THEN d.v[name] ELSE None
    IN  Let(AllOk([i \in 1..Len(nas) |->
                      to_slv(nas[i].subtype, Get(nas[i].name), generics,
                             allow_undefined)]), LAMBDA slvs:
        IF d.t # "dict" THEN Raise("AttributeError")
        ELSE IF DOMAIN d.v \ names # {} THEN Raise("ToSlvError")
        ELSE IF ~slvs.ok THEN slvs
        ELSE Ok(Join(slvs.v)))

\* A ConstrainedArray.to_slv that does not look at the length of the data.
ConstrainedArray_to_slv_no_length_check(typ, data, generics, allow_undefined) ==
    Let(apply_generics(generics, typ.size), LAMBDA size:
    LET filled == IF data = None THEN PyList([i \in 1..size.v |-> None]) ELSE data
    IN  IF ~size.ok THEN size
        ELSE IF filled.t # "list" THEN Raise("ToSlvError")
        ELSE Array_to_slv(typ.subtype, filled, generics, allow_undefined))

\* A Record.to_slv that raises when the dict is without a field.
Record_to_slv_requires_fields(typ, data, generics, allow_undefined) ==
    LET nas == typ.names_and_subtypes
        d == IF data = None THEN PyDict(<<>>) ELSE data
        names == {nas[i].name : i \in 1..Len(nas)}
    IN  Let(AllOk([i \in 1..Len(nas) |->
                      IF nas[i].name \in DOMAIN d.v
                      THEN to_slv(nas[i].subtype, d.v[nas[i].name], generics,
                                  allow_undefined)
                      ELSE Raise("ToSlvError")]), LAMBDA slvs:
        IF d.t # "dict" THEN Raise("AttributeError")
        ELSE IF DOMAIN d.v \ names # {} THEN Raise("ToSlvError")
        ELSE IF ~slvs.ok THEN slvs
        ELSE Ok(Join(Reversed(slvs.v))))

\* T.to_slv(data, generics, allow_undefined), by the class of T.
to_slv(typ, data, generics, allow_undefined) ==
    CASE typ.kind = "std_logic" -> StdLogic_to_slv(data, allow_undefined)
      [] typ.kind = "std_logic_vector" ->
            ConstrainedStdLogicVector_to_slv(typ, data, generics, allow_undefined)
      [] typ.kind = "signed" ->
            ConstrainedSigned_to_slv(typ, data, generics, allow_undefined)
      [] typ.kind = "enumeration" -> Enumeration_to_slv(typ, data, allow_undefined)
      [] typ.kind = "array" ->
            ConstrainedArray_to_slv(typ, data, generics, allow_undefined)
      [] typ.kind = "record" -> Record_to_slv(typ, data, generics, allow_undefined)

\* Array.to_slv of the unconstrained type: the elements in reversed order.
Array_to_slv(subtype, data, generics, allow_undefined) ==
    IF data = None THEN Raise("ToSlvError")
    ELSE Let(AllOk([i \in 1..Len(data.v) |->
                      to_slv(subtype, Reversed(data.v)[i], generics,
                             allow_undefined)]), LAMBDA slvs:
             IF ~slvs.ok THEN slvs ELSE Ok(Join(slvs.v)))

ConstrainedArray_to_slv(typ, data, generics, allow_undefined) ==
    Let(apply_generics(generics, typ.size), LAMBDA size:
    LET filled == IF data = None THEN PyList([i \in 1..size.v |-> None]) ELSE data
    IN  IF ~size.ok THEN size
        ELSE IF data = None /\ ~allow_undefined THEN Raise("AssertionError")
        ELSE IF filled.t # "list" THEN Raise("ToSlvError")
        ELSE IF Len(filled.v) # size.v THEN Raise("ToSlvError")
        ELSE Array_to_slv(typ.subtype, filled, generics, allow_undefined))

Record_to_slv(typ, data, generics, allow_undefined) ==
    LET nas == typ.names_and_subtypes
        d == IF data = None THEN PyDict(<<>>) ELSE data
        names == {nas[i].name : i \in 1..Len(nas)}
        Get(name) == IF name \in DOMAIN d.v THEN d.v[name] ELSE None
    IN  Let(AllOk([i \in 1..Len(nas) |->
                      to_slv(nas[i].subtype, Get(nas[i].name), generics,
                             allow_undefined)]), LAMBDA slvs:
        IF d.t # "dict" THEN Raise("AttributeError")
        ELSE IF DOMAIN d.v \ names # {} THEN Raise("ToSlvError")
        ELSE IF ~slvs.ok THEN slvs
        ELSE Ok(Join(Reversed(slvs.v))))

(***************************************************************************)
(* typs: from_slv and reduce_slv.  reduce_slv returns [data, slv]: the     *)
(* value taken from the end of the string and the rest of the string.      *)
(***************************************************************************)
StdLogic_from_slv(slv) ==
    IF slv = <<"0">> THEN PyInt(0)
    ELSE IF slv = <<"1">> THEN PyInt(1)
    ELSE None

\* The loop of ConstrainedStdLogicVector.from_slv over the bits.
RECURSIVE ShiftInBits(_, _)
ShiftInBits(data, slv) ==
    IF slv = <<>> THEN data
    ELSE Let(StdLogic_from_slv(<<Head(slv)>>), LAMBDA b:
             IF b = None \/ data = None THEN ShiftInBits(None, Tail(slv))
             ELSE ShiftInBits(PyInt(2 * data.v + b.v), Tail(slv)))

ConstrainedStdLogicVector_from_slv(slv) == Ok(ShiftInBits(PyInt(0), slv))

ConstrainedSigned_from_slv(typ, slv, generics) ==
    Let(apply_generics(generics, typ.size), LAMBDA size:
    Let(ShiftInBits(PyInt(0), slv), LAMBDA data:
    LET signed == IF data.v > typ.max_value THEN data.v - Pow2(size.v) ELSE data.v
    IN  IF ~size.ok THEN size
        ELSE IF data = None THEN Ok(None)
        ELSE IF signed < typ.min_value \/ signed > typ.max_value
             THEN Raise("AssertionError")
        ELSE Ok(PyInt(signed))))

\* The split all the fixed width reduce_slv methods share: the last width
\* characters and what is before them, the whole string being "before" for
\* a width of 0.
SplitEnd(slv, width) ==
    IF width = 0 THEN [these_slv |-> PySliceTo(slv, 0), reduced_slv |-> PySliceFrom(slv, 0)]
    ELSE [these_slv |-> PySliceFrom(slv, -width), reduced_slv |-> PySliceTo(slv, -width)]

RECURSIVE from_slv(_, _, _), reduce_slv(_, _, _)
RECURSIVE Array_from_slv(_, _, _), ConstrainedArray_from_slv(_, _, _)
RECURSIVE Record_reduce_slv(_, _, _, _), Enumeration_reduce_slv(_, _)

Enumeration_reduce_slv(typ, slv) ==
    Let(PySliceTo(slv, -typ.width.n), LAMBDA reduced_slv:
    Let(slv_to_uint(PySliceFrom(slv, -typ.width.n)), LAMBDA index:
        IF index = None THEN Raise("TypeError")
        ELSE IF index.v >= Len(typ.literals) THEN Raise("IndexError")
        ELSE Ok([data |-> PyStr(typ.literals[index.v + 1]), slv |-> reduced_slv])))

\* T.from_slv(slv, generics), by the class of T.
from_slv(typ, slv, generics) ==
    CASE typ.kind = "std_logic" -> Ok(StdLogic_from_slv(slv))
      [] typ.kind = "std_logic_vector" -> ConstrainedStdLogicVector_from_slv(slv)
      [] typ.kind = "signed" -> ConstrainedSigned_from_slv(typ, slv, generics)
      [] typ.kind = "enumeration" ->
            Let(Enumeration_reduce_slv(typ, slv), LAMBDA r:
                IF ~r.ok THEN r
                ELSE IF r.v.slv # <<>> THEN Raise("AssertionError")
                ELSE Ok(r.v.data))
      [] typ.kind = "array" -> ConstrainedArray_from_slv(typ, slv, generics)
      [] typ.kind = "record" ->
            Let(Record_reduce_slv(typ.names_and_subtypes, slv, generics, <<>>), LAMBDA r:
                IF ~r.ok THEN r
                ELSE IF r.v.slv # <<>> THEN Raise("AssertionError")
                ELSE Ok(r.v.data))

\* T.reduce_slv(slv, generics), by the class of T.
reduce_slv(typ, slv, generics) ==
    CASE typ.kind = "std_logic" ->
            IF slv = <<>> THEN Raise("IndexError")
            ELSE Ok([data |-> StdLogic_from_slv(<<slv[Len(slv)]>>),
                     slv |-> PySliceTo(slv, -1)])
      [] typ.kind \in {"std_logic_vector", "signed", "array"} ->
            Let(apply_generics(generics, typ.width), LAMBDA width:
            Let(SplitEnd(slv, width.v), LAMBDA split:
            Let(from_slv(typ, split.these_slv, generics), LAMBDA data:
                IF ~width.ok THEN width
                ELSE IF ~data.ok THEN data
                ELSE Ok([data |-> data.v, slv |-> split.reduced_slv]))))
      [] typ.kind = "enumeration" -> Enumeration_reduce_slv(typ, slv)
      [] typ.kind = "record" ->
            Record_reduce_slv(typ.names_and_subtypes, slv, generics, <<>>)

\* Array.from_slv of the unconstrained type: pieces of the subtype's width,
\* decoded left to right, then reversed.
Array_from_slv(subtype, slv, generics) ==
    Let(apply_generics(generics, subtype.width), LAMBDA w:
    LET n == Len(slv) \div w.v
    IN  Let(AllOk([i \in 1..n |->
               from_slv(subtype, PySlice(slv, (i - 1) * w.v, i * w.v), generics)]), LAMBDA pieces:
        IF ~w.ok THEN w
        ELSE IF w.v = 0 THEN Raise("ZeroDivisionError")
        ELSE IF Len(slv) % w.v # 0 THEN Raise("AssertionError")
        ELSE IF ~pieces.ok THEN pieces
        ELSE Ok(PyList(Reversed(pieces.v)))))

ConstrainedArray_from_slv(typ, slv, generics) ==
    Let(Array_from_slv(typ.subtype, slv, generics), LAMBDA data:
    Let(apply_generics(generics, typ.size), LAMBDA size:
        IF ~data.ok THEN data
        ELSE IF ~size.ok THEN size
        ELSE IF Len(data.v.v) # size.v THEN Raise("AssertionError")
        ELSE data))

\* d[key] = val on a dict (a function from its keys).
DictSet(d, key, val) ==
    [n \in (DOMAIN d) \cup {key} |-> IF n = key THEN val ELSE d[n]]

\* The loop of Record.reduce_slv over the fields nas that are left, data
\* being the dict filled so far.
Record_reduce_slv(nas, reduced_slv, generics, data) ==
    IF nas = <<>> THEN Ok([data |-> PyDict(data), slv |-> reduced_slv])
    ELSE Let(reduce_slv(Head(nas).subtype, reduced_slv, generics), LAMBDA r:
             IF ~r.ok THEN r
             ELSE Record_reduce_slv(Tail(nas), r.v.slv, generics,
                                    DictSet(data, Head(nas).name, r.v.data)))

(***************************************************************************)
(* The types, generics and values the codec is run on.                     *)
(***************************************************************************)
\* The one generic of the model, as entity.resolve leaves it in a size.
length == Generic("length")
GenericsSet == [{"length"} -> 0..MaxSize]

VectorSizes == {Num(n) : n \in 0..MaxSize} \cup {length}
ArraySizes == {Num(n) : n \in 0..MaxLen} \cup {length}

\* Declared as (red, GREEN, blue, black): the constructor lower-cases them.
Literals == <<"red", "GREEN", "blue", "black">>
EnumStrings == {"red", "RED", "green", "GREEN", "blue", "BLUE", "black", "BLACK"}

LeafTypes ==
    {StdLogic}
    \cup {ConstrainedStdLogicVector(size) : size \in VectorSizes}
    \cup {ConstrainedSigned(Num(n)) : n \in 1..MaxSize}
    \cup {Enumeration(SubSeq(Literals, 1, n)) : n \in {1, 3}}

mixture_t == Record(<<Field("is_happy", StdLogic),
                      Field("color", ConstrainedStdLogicVector(Num(1)))>>)

\* The subtypes of the arrays: a bit, vectors (of no bits, of one bit, of
\* "length" bits), an enumeration, a record and an array.
ElementTypes ==
    {StdLogic, ConstrainedStdLogicVector(Num(0)), ConstrainedStdLogicVector(Num(1)),
     ConstrainedStdLogicVector(length), ConstrainedSigned(Num(1)),
     Enumeration(SubSeq(Literals, 1, 3)), mixture_t,
     ConstrainedArray(Num(1), StdLogic)}
ArrayTypes == {ConstrainedArray(size, subtype) :
                  size \in ArraySizes, subtype \in ElementTypes}

\* The types of the fields of the records.
FieldTypes ==
    LeafTypes
    \cup {ConstrainedArray(length, StdLogic),
          ConstrainedArray(Num(1), ConstrainedStdLogicVector(length)), mixture_t}
RecordTypes ==
    {Record(<<Field("a", t)>>) : t \in FieldTypes}
    \cup {Record(<<Field("a", t), Field("b", u)>>) : t \in FieldTypes, u \in FieldTypes}

Types == LeafTypes \cup ArrayTypes \cup RecordTypes

\* The values to_slv takes for a type: every legal value, None included at
\* every level.
RECURSIVE Values(_, _), RecordValues(_, _)
Values(typ, generics) ==
    CASE typ.kind = "std_logic" -> {PyInt(0), PyInt(1), None}
      [] typ.kind = "std_logic_vector" ->
            {PyInt(n) : n \in 0..(Pow2(apply_generics(generics, typ.size).v) - 1)}
            \cup {None}
      [] typ.kind = "signed" ->
            {PyInt(n) : n \in typ.min_value..typ.max_value} \cup {None}
      [] typ.kind = "enumeration" ->
            {PyStr(s) : s \in {x \in EnumStrings :
                                  \E i \in 1..Len(typ.literals) : typ.literals[i] = Lower(x)}}
            \cup {None}
      [] typ.kind = "array" ->
            {PyList(l) : l \in [1..apply_generics(generics, typ.size).v ->
                                   Values(typ.subtype, generics)]}
            \cup {None}
      [] typ.kind = "record" ->
            {PyDict(d) : d \in RecordValues(typ.names_and_subtypes, generics)}
            \cup {None}
RecordValues(nas, generics) ==
    IF nas = <<>> THEN {<<>>}
    ELSE {DictSet(d, Head(nas).name, v) :
             d \in RecordValues(Tail(nas), generics),
             v \in Values(Head(nas).subtype, generics)}

\* A value with no None in it.
RECURSIVE Defined(_)
Defined(v) ==
    CASE v.t = "None" -> FALSE
      [] v.t = "list" -> \A i \in 1..Len(v.v) : Defined(v.v[i])
      [] v.t = "dict" -> \A n \in DOMAIN v.v : Defined(v.v[n])
      [] OTHER -> TRUE

(***************************************************************************)
(* entity: the ports of a resolved Entity and its codec.                   *)
(***************************************************************************)
CLOCK_NAMES == {"clk", "clock"}

Port(name, direction, port_typ) ==
    [name |-> name, direction |-> direction, typ |-> port_typ]

\* The ports with this direction that are no clocks, in declaration order.
RECURSIVE SelectPorts(_, _)
SelectPorts(ports, direction) ==
    IF ports = <<>> THEN <<>>
    ELSE IF Head(ports).direction = direction /\ Head(ports).name \notin CLOCK_NAMES
         THEN <<Head(ports)>> \o SelectPorts(Tail(ports), direction)
    ELSE SelectPorts(Tail(ports), direction)

input_ports(ports) == SelectPorts(ports, "in")

\* output_ports does not leave the clocks out.
RECURSIVE output_ports(_)
output_ports(ports) ==
    IF ports = <<>> THEN <<>>
    ELSE IF Head(ports).direction = "out"
         THEN <<Head(ports)>> \o output_ports(Tail(ports))
    ELSE output_ports(Tail(ports))

\* The ports the loop of inputs_to_slv does not skip.
RECURSIVE PortsToConvert(_, _, _)
PortsToConvert(ports, inputs, subset_only) ==
    IF ports = <<>> THEN <<>>
    ELSE IF subset_only /\ Head(ports).name \notin DOMAIN inputs.v
         THEN PortsToConvert(Tail(ports), inputs, subset_only)
    ELSE <<Head(ports)>> \o PortsToConvert(Tail(ports), inputs, subset_only)

inputs_to_slv(ports, inputs, gen, subset_only) ==
    Let(PortsToConvert(input_ports(ports), inputs, subset_only), LAMBDA todo:
    LET Get(name) == IF name \in DOMAIN inputs.v THEN inputs.v[name] ELSE None
    IN  Let(AllOk([i \in 1..Len(todo) |->
                      to_slv(todo[i].typ, Get(todo[i].name), gen, TRUE)]), LAMBDA slvs:
    Let({input_ports(ports)[i].name : i \in 1..Len(input_ports(ports))}, LAMBDA input_names:
        IF ~slvs.ok THEN slvs
        ELSE IF (DOMAIN inputs.v) \ input_names # {} THEN Raise("ToSlvError")
        ELSE Ok(Join(Reversed(slvs.v))))))

\* The loop of ports_from_slv over the ports that are left; subset is None
\* or a list of names.
RECURSIVE PortsLoop(_, _, _, _, _, _, _)
PortsLoop(ports, slv_, gen, direction, subset, pos, outputs_) ==
    IF ports = <<>> THEN Ok(PyDict(outputs_))
    ELSE LET port == Head(ports)
         IN  Let(get_value(substitute_generics(gen, port.typ.width)), LAMBDA width:
         LET intwidth == width.v
         IN  Let(IF pos = 0 THEN PySliceFrom(slv_, -intwidth)
                 ELSE PySlice(slv_, -pos - intwidth, -pos), LAMBDA piece:
         Let(from_slv(port.typ, piece, gen), LAMBDA port_value:
             IF /\ port.direction = direction
                /\ port.name \notin CLOCK_NAMES
                /\ (subset = None \/ \E i \in 1..Len(subset.v) : subset.v[i] = port.name)
             THEN IF ~width.ok THEN width
                  ELSE IF ~port_value.ok THEN port_value
                  ELSE PortsLoop(Tail(ports), slv_, gen, direction, subset,
                                 pos + intwidth,
                                 DictSet(outputs_, port.name, port_value.v))
             ELSE PortsLoop(Tail(ports), slv_, gen, direction, subset, pos, outputs_))))

ports_from_slv(ports, slv_, gen, direction, subset) ==
    PortsLoop(ports, slv_, gen, direction, subset, 0, <<>>)

\* str.strip(): the string without the white space at its ends.
RECURSIVE Strip(_)
Strip(s) ==
    IF s # <<>> /\ Head(s) \in {" ", "\n"} THEN Strip(Tail(s))
    ELSE IF s # <<>> /\ s[Len(s)] \in {" ", "\n"} THEN Strip(SubSeq(s, 1, Len(s) - 1))
    ELSE s

outputs_from_slv(ports, slv_, gen, subset) ==
    ports_from_slv(ports, Strip(slv_), gen, "out", subset)

inputs_from_slv(ports, slv_, gen, subset) ==
    ports_from_slv(ports, Strip(slv_), gen, "in", subset)

(***************************************************************************)
(* The message of a ToSlvError: the parts of error.args[0], the outermost  *)
(* first.  A part is what it says, the names it holds and the identifier   *)
(* of the record or of the entity it names.                                *)
(***************************************************************************)
MessagePart(what, names, of) == [what |-> what, names |-> names, of |-> of]
\* Record.identifier of the records of the model.
RecordIdentifier(typ) == IF typ = mixture_t THEN "mixture_t" ELSE "record"
\* The index of the first result that is a failure.
FirstFailure(results) ==
    CHOOSE i \in 1..Len(results) :
        /\ ~results[i].ok
        /\ \A j \in 1..(i - 1) : results[j].ok

\* error.args[0] of the ToSlvError T.to_slv(data, generics) raises, <<>>
\* when it raises none.  Record.to_slv puts the element and the record in
\* front of the message of a field; ConstrainedArray.to_slv and Array.to_slv
\* let the ToSlvError of an element through as it is.
RECURSIVE to_slv_message(_, _, _)
to_slv_message(typ, data, generics) ==
    IF to_slv(typ, data, generics, TRUE) # Raise("ToSlvError") THEN <<>>
    ELSE CASE typ.kind = "record" ->
                LET nas == typ.names_and_subtypes
                    d == IF data = None THEN PyDict(<<>>) ELSE data
                    invalid_names == DOMAIN d.v \ {nas[i].name : i \in 1..Len(nas)}
                    Get(name) == IF name \in DOMAIN d.v THEN d.v[name] ELSE None
                IN  IF invalid_names # {}
                    THEN <<MessagePart("Unknown element", invalid_names,
                                       RecordIdentifier(typ))>>
                    ELSE Let(FirstFailure([i \in 1..Len(nas) |->
                                to_slv(nas[i].subtype, Get(nas[i].name), generics, TRUE)]),
                             LAMBDA i:
                             <<MessagePart("Error in element", {nas[i].name},
                                           RecordIdentifier(typ))>>
                             \o to_slv_message(nas[i].subtype, Get(nas[i].name), generics))
           [] typ.kind = "array" ->
                IF data # None /\ (data.t # "list"
                                   \/ Len(data.v) # apply_generics(generics, typ.size).v)
                THEN <<MessagePart("length", {}, "")>>
                ELSE Let(Reversed(data.v), LAMBDA reversed:
                     Let(FirstFailure([i \in 1..Len(reversed) |->
                                to_slv(typ.subtype, reversed[i], generics, TRUE)]),
                         LAMBDA i: to_slv_message(typ.subtype, reversed[i], generics)))
           [] OTHER -> <<MessagePart("Value", {}, "")>>

\* error.args[0] of the ToSlvError inputs_to_slv raises, <<>> when it raises
\* none: the entity and the port, then the message of the port's type.
inputs_to_slv_message(identifier, ports, inputs, gen, subset_only) ==
    Let(PortsToConvert(input_ports(ports), inputs, subset_only), LAMBDA todo:
    LET Get(name) == IF name \in DOMAIN inputs.v THEN inputs.v[name] ELSE None
    IN  Let([i \in 1..Len(todo) |->
                to_slv(todo[i].typ, Get(todo[i].name), gen, TRUE)], LAMBDA slvs:
        IF inputs_to_slv(ports, inputs, gen, subset_only) # Raise("ToSlvError")
        THEN <<>>
        ELSE IF \A i \in 1..Len(slvs) : slvs[i].ok
        THEN <<MessagePart("port that does not exist",
                           (DOMAIN inputs.v)
                           \ {input_ports(ports)[i].name :
                                 i \in 1..Len(input_ports(ports))},
                           identifier)>>
        ELSE Let(FirstFailure(slvs), LAMBDA i:
                 <<MessagePart("Failure to convert inputs", {todo[i].name}, identifier)>>
                 \o to_slv_message(todo[i].typ, Get(todo[i].name), gen))))

(***************************************************************************)
(* The entities the entity codec is run on: a clock and two or three ports *)
(* of either direction.                                                    *)
(***************************************************************************)
PortTypes ==
    {StdLogic, ConstrainedStdLogicVector(Num(0)), ConstrainedStdLogicVector(length),
     mixture_t, ConstrainedArray(length, StdLogic)}
SmallPortTypes == {StdLogic, ConstrainedStdLogicVector(Num(0))}
Directions == {"in", "out"}

Entities ==
    {<<Port("clk", "in", StdLogic), Port("p1", d1, t1), Port("p2", d2, t2)>> :
        d1 \in Directions, t1 \in PortTypes, d2 \in Directions, t2 \in PortTypes}
    \cup {<<Port("p1", d1, t1), Port("clk", "in", StdLogic), Port("p2", d1, t2),
            Port("p3", d1, t3)>> :
            d1 \in Directions, t1 \in SmallPortTypes, t2 \in SmallPortTypes,
            t3 \in SmallPortTypes}

\* The values with no None in them.
DefinedValues(t, gen) == {v \in Values(t, gen) : Defined(v)}

\* The dicts that give every port of the list a defined legal value.
RECURSIVE PortValues(_, _)
PortValues(ports, gen) ==
    IF ports = <<>> THEN {<<>>}
    ELSE {DictSet(d, Head(ports).name, v) :
             d \in PortValues(Tail(ports), gen),
             v \in DefinedValues(Head(ports).typ, gen)}

\* The anonymous record the ports of a list make.
PortsRecord(ports) ==
    Record([i \in 1..Len(ports) |-> Field(ports[i].name, ports[i].typ)])

(***************************************************************************)
(* Resolution of entities and packages (entity.py, package.py).  Every     *)
(* dict of the program is an object of a heap h, a sequence of dicts       *)
(* indexed by address; a dict is a sequence of [key, val] in insertion     *)
(* order.  An operator that may write to a dict takes the heap and gives   *)
(* [h, r]: the heap it leaves and Ok(value) or the exception raised.  An   *)
(* exception is its class and the set of names its message holds.          *)
(***************************************************************************)
Error(type, names) == Raise([type |-> type, names |-> names])

Keys(d) == {d[i].key : i \in 1..Len(d)}
Get(d, key) == d[OdIndex(d, key)].val
SetItem(h, a, key, val) == [h EXCEPT ![a] = OdSet(h[a], key, val)]

\* d.update(e)
RECURSIVE Update(_, _)
Update(d, e) ==
    IF e = <<>> THEN d
    ELSE Update(OdSet(d, Head(e).key, Head(e).val), Tail(e))

RECURSIVE get_constant_list(_)
get_constant_list(item) ==
    CASE item.k = "name" -> {item.name}
      [] item.k \in {"num", "generic"} -> {}
      [] item.k \in {"power", "term"} -> get_constant_list(item.expression)
      [] item.k = "mul" ->
            UNION {get_constant_list(item.powers[i]) : i \in 1..Len(item.powers)}
      [] item.k = "add" ->
            UNION {get_constant_list(item.terms[i]) : i \in 1..Len(item.terms)}

\* make_substitute_function(d)(item): every str that is a key of d is
\* replaced by d's value, others are left.
RECURSIVE make_substitute_function(_, _)
make_substitute_function(d, item) ==
    CASE item.k = "name" ->
            IF item.name \in Keys(d) THEN Get(d, item.name) ELSE item
      [] item.k \in {"num", "generic"} -> item
      [] item.k = "power" ->
            Power(item.number, make_substitute_function(d, item.expression))
      [] item.k = "term" ->
            Term(item.number, make_substitute_function(d, item.expression))
      [] item.k = "mul" ->
            Multiplication([i \in 1..Len(item.powers) |->
                               make_substitute_function(d, item.powers[i])])
      [] item.k = "add" ->
            Addition([i \in 1..Len(item.terms) |->
                         make_substitute_function(d, item.terms[i])])

resolve_expression(expression, constants) ==
    Let(get_constant_list(expression), LAMBDA constant_dependencies:
    Let(constant_dependencies \ Keys(constants), LAMBDA missing_constants:
        IF missing_constants # {}
        THEN Error("ResolutionError", missing_constants)
        ELSE IF constant_dependencies # {}
             THEN Ok(make_substitute_function(constants, expression))
        ELSE Ok(expression)))

\* The type of a port or of a field given by its name, a str.
TypeName(name) == [u |-> "str", name |-> name]
IsStr(port_typ) == port_typ.u = "str"

\* The unresolved types.
UnresolvedConstrainedStdLogicVector(size) == [u |-> "vector", size |-> size]
UnresolvedArray(subtype_identifier) ==
    [u |-> "array", subtype_identifier |-> subtype_identifier]
UnresolvedConstrainedArray(size, unconstrained_type_identifier) ==
    [u |-> "constrained_array", size |-> size,
     unconstrained_type_identifier |-> unconstrained_type_identifier]
UnresolvedRecord(names_and_subtypes) ==
    [u |-> "record", names_and_subtypes |-> names_and_subtypes]

\* An array without defined length, resolved; std_logic_vector is one.
Array(subtype) == [kind |-> "unconstrained_array", subtype |-> subtype]
StdLogicVector == Array(StdLogic)

\* The class attribute unconstrained of a resolved type.
unconstrained(resolved_typ) == resolved_typ.kind = "unconstrained_array"

\* t.type_dependencies of an unresolved type whose subtypes are names.
type_dependencies(t) ==
    CASE t.u = "vector" -> {}
      [] t.u = "array" -> {t.subtype_identifier}
      [] t.u = "constrained_array" -> {t.unconstrained_type_identifier}
      [] t.u = "record" ->
            {t.names_and_subtypes[i].subtype.name :
                i \in 1..Len(t.names_and_subtypes)}

\* typ.resolve(types, constants) of an unresolved type; a field of a record
\* that is a name is looked up with types[subtype].
RECURSIVE typ_resolve(_, _, _), ResolveSubtypes(_, _, _)
typ_resolve(t, types, constants) ==
    CASE t.u = "vector" ->
            Let(resolve_expression(t.size, constants), LAMBDA size:
                IF ~size.ok THEN size
                ELSE Ok(ConstrainedStdLogicVector(size.v)))
      [] t.u = "array" ->
            Ok(Array(IF t.subtype_identifier \in Keys(types)
                     THEN Get(types, t.subtype_identifier) ELSE None))
      [] t.u = "constrained_array" ->
            IF t.unconstrained_type_identifier \notin Keys(types)
            THEN Error("ResolutionError", {t.unconstrained_type_identifier})
            ELSE LET unconstrained_type ==
                         Get(types, t.unconstrained_type_identifier)
                 IN  Let(resolve_expression(t.size, constants), LAMBDA size:
                     IF ~size.ok THEN size
                     ELSE IF "subtype" \notin DOMAIN unconstrained_type
                          THEN Error("AttributeError", {"subtype"})
                     ELSE IF "width" \notin DOMAIN unconstrained_type.subtype
                          THEN Error("AttributeError", {"width"})
                     ELSE Ok(ConstrainedArray(size.v, unconstrained_type.subtype)))
      [] t.u = "record" ->
            Let(
                    ResolveSubtypes(t.names_and_subtypes, types, constants), LAMBDA resolved_subtypes:
                IF ~resolved_subtypes.ok THEN resolved_subtypes
                ELSE IF \E i \in 1..Len(resolved_subtypes.v) :
                            "width" \notin DOMAIN resolved_subtypes.v[i].subtype
                     THEN Error("AttributeError", {"width"})
                ELSE Ok(Record(resolved_subtypes.v)))
ResolveSubtypes(nas, types, constants) ==
    IF nas = <<>> THEN Ok(<<>>)
    ELSE LET subtype == Head(nas).subtype
         IN  Let(
                 IF ~IsStr(subtype) THEN typ_resolve(subtype, types, constants)
                 ELSE IF subtype.name \in Keys(types)
                      THEN Ok(Get(types, subtype.name))
                 ELSE Error("KeyError", {subtype.name}), LAMBDA resolved_subtype:
         Let(ResolveSubtypes(Tail(nas), types, constants), LAMBDA rest:
             IF ~resolved_subtype.ok THEN resolved_subtype
             ELSE IF ~rest.ok THEN rest
             ELSE Ok(<<Field(Head(nas).name, resolved_subtype.v)>> \o rest.v)))

\* A merge that updates its second argument in place and returns it.
exclusive_dict_merge_into_second(h, a, b) ==
    IF Keys(h[a]) \cap Keys(h[b]) # {}
    THEN [h |-> h, r |-> Error("AssertionError", {})]
    ELSE [h |-> [h EXCEPT ![b] = Update(@, h[a])], r |-> Ok(b)]

\* exclusive_dict_merge(a, b): c = a.copy() is a new dict, which b updates.
exclusive_dict_merge(h, a, b) ==
    IF Keys(h[a]) \cap Keys(h[b]) # {}
    THEN [h |-> h, r |-> Error("AssertionError", {})]
    ELSE LET c == Len(h) + 1
             copied == Append(h, h[a])
         IN  [h |-> [copied EXCEPT ![c] = Update(@, copied[b])], r |-> Ok(c)]

\* The loop of combine_packages over the packages that are left.
RECURSIVE CombineLoop(_, _, _, _)
CombineLoop(h, packages, combined_types, combined_constants) ==
    IF packages = <<>>
    THEN [h |-> h, r |-> Ok([types |-> combined_types,
                             constants |-> combined_constants])]
    ELSE Let(exclusive_dict_merge(h, combined_types, Head(packages).types), LAMBDA t:
             IF ~t.r.ok THEN t
             ELSE Let(exclusive_dict_merge(t.h, combined_constants,
                                           Head(packages).constants), LAMBDA c:
                      IF ~c.r.ok THEN c
                      ELSE CombineLoop(c.h, Tail(packages), t.r.v, c.r.v)))

\* combine_packages(packages): both dicts start as a new {}.
combine_packages(h, packages) ==
    CombineLoop(Append(Append(h, <<>>), <<>>), packages, Len(h) + 1, Len(h) + 2)

\* A resolved package, and an unresolved one, which has no attribute resolved.
Package(identifier, types, constants) ==
    [identifier |-> identifier, resolved |-> TRUE, types |-> types,
     constants |-> constants]
UnresolvedPackage(identifier, types, constants, uses) ==
    [identifier |-> identifier, types |-> types, constants |-> constants,
     uses |-> uses]
Use(design_unit, package) == [design_unit |-> design_unit, package |-> package]

\* The loop of resolve_uses over the uses that are left; resolved_uses is
\* the address of the dict it fills.
RECURSIVE ResolveUsesLoop(_, _, _, _, _)
ResolveUsesLoop(h, uses, packages, must_resolve, resolved_uses) ==
    IF uses = <<>> THEN [h |-> h, r |-> Ok(resolved_uses)]
    ELSE LET use_name == Head(uses).key
             use == Head(uses).val
         IN  Let(ResolveUsesLoop(h, Tail(uses), packages, must_resolve,
                                 resolved_uses), LAMBDA skip:
             IF use_name \notin Keys(h[packages])
             THEN IF must_resolve
                  THEN [h |-> h, r |-> Error("Exception", {use_name})]
                  ELSE skip
             ELSE IF "resolved" \notin DOMAIN Get(h[packages], use_name)
                  THEN [h |-> h, r |-> Error("AttributeError", {"resolved"})]
             ELSE IF ~Get(h[packages], use_name).resolved
                  THEN IF must_resolve
                       THEN [h |-> h, r |-> Error("Exception", {use_name})]
                       ELSE skip
             ELSE ResolveUsesLoop(
                      SetItem(h, resolved_uses, use_name,
                              Use(use.design_unit, Get(h[packages], use_name))),
                      Tail(uses), packages, must_resolve, resolved_uses))

\* resolve_uses(uses, packages, must_resolve): uses and packages are the
\* addresses of the dicts.
resolve_uses(h, uses, packages, must_resolve) ==
    ResolveUsesLoop(Append(h, <<>>), h[uses], packages, must_resolve, Len(h) + 1)

\* [u.package for u in resolved_uses.values()]
UsedPackages(resolved_uses) ==
    [i \in 1..Len(resolved_uses) |-> resolved_uses[i].val.package]

\* The type resolve_port finds for the port, before it looks at it.
resolved_typ(port, available_types, available_constants) ==
    IF IsStr(port.typ) /\ port.typ.name \in Keys(available_types)
    THEN Ok(Get(available_types, port.typ.name))
    ELSE IF IsStr(port.typ)
         THEN Error("ResolutionError", {port.typ.name})
    ELSE typ_resolve(port.typ, available_types, available_constants)

\* A resolve_port that lets an unconstrained type through.
resolve_port_of_any_type(self, port, available_types, available_constants) ==
    Let(resolved_typ(port, available_types, available_constants), LAMBDA t:
        IF ~t.ok THEN t ELSE Ok(Port(port.name, port.direction, t.v)))

resolve_port(self, port, available_types, available_constants) ==
    Let(resolved_typ(port, available_types, available_constants), LAMBDA t:
        IF ~t.ok THEN t
        ELSE IF unconstrained(t.v)
             THEN Error("ResolutionError", {self.identifier, port.name})
        ELSE Ok(Port(port.name, port.direction, t.v)))

\* A handler that raises again in either mode.
except_ResolutionError_raises(self, port, error, must_resolve) ==
    IF error.type = "ResolutionError"
    THEN Error("ResolutionError", {self.identifier, port.name} \cup error.names)
    ELSE Raise(error)

\* The except clause of UnresolvedEntity.resolve: Ok(None) when the port
\* is skipped; an exception of another class is not caught.
except_ResolutionError(self, port, error, must_resolve) ==
    IF error.type = "ResolutionError"
    THEN IF must_resolve
         THEN Error("ResolutionError",
                    {self.identifier, port.name} \cup error.names)
         ELSE Ok(None)
    ELSE Raise(error)

\* The loop of UnresolvedEntity.resolve over the ports that are left;
\* resolved_ports is the address of the OrderedDict it fills.
RECURSIVE ResolvePorts(_, _, _, _, _, _, _)
ResolvePorts(h, self, ports, available_types, available_constants, must_resolve, resolved_ports) ==
    IF ports = <<>> THEN [h |-> h, r |-> Ok(resolved_ports)]
    ELSE LET name == Head(ports).key
             port == Head(ports).val
         IN  Let(resolve_port(self, port, h[available_types],
                              h[available_constants]), LAMBDA resolved_port:
             IF resolved_port.ok
             THEN ResolvePorts(SetItem(h, resolved_ports, name, resolved_port.v),
                               self, Tail(ports), available_types,
                               available_constants, must_resolve, resolved_ports)
             ELSE IF except_ResolutionError(self, port, resolved_port.err,
                                            must_resolve).ok
                  THEN ResolvePorts(h, self, Tail(ports), available_types,
                                    available_constants, must_resolve,
                                    resolved_ports)
             ELSE [h |-> h,
                   r |-> except_ResolutionError(self, port, resolved_port.err,
                                                must_resolve)])

\* The resolved entity; generics is the dict of the unresolved one.
Entity(identifier, generics, ports, uses) ==
    [identifier |-> identifier, generics |-> generics, ports |-> ports,
     uses |-> uses]

\* UnresolvedEntity.resolve(packages, must_resolve); the Entity returned
\* holds the addresses of its dicts.
UnresolvedEntity_resolve(h, self, packages, must_resolve) ==
    Let(resolve_uses(h, self.uses, packages, must_resolve), LAMBDA u:
        IF ~u.r.ok THEN u
        ELSE
        Let(combine_packages(u.h, UsedPackages(u.h[u.r.v])), LAMBDA c:
            IF ~c.r.ok THEN c
            ELSE
            Let(exclusive_dict_merge(c.h, c.r.v.constants, self.generics), LAMBDA m:
                IF ~m.r.ok THEN m
                ELSE
                Let(ResolvePorts(Append(m.h, <<>>), self, m.h[self.ports],
                                 c.r.v.types, m.r.v, must_resolve,
                                 Len(m.h) + 1), LAMBDA p:
                    IF ~p.r.ok THEN p
                    ELSE [h |-> p.h,
                          r |-> Ok(Entity(self.identifier, self.generics,
                                          p.r.v, u.r.v))]))))

\* resolve_function of UnresolvedPackage.resolve: resolve_constant for the
\* constants, resolve_type for the types.
resolve_function(kind, unresolved_item, updated_available, available_constants) ==
    IF kind = "constant"
    THEN Ok(make_substitute_function(updated_available, unresolved_item))
    ELSE typ_resolve(unresolved_item, updated_available, available_constants)

\* The for loop of package.resolve_dependencies over the names todo.  st
\* holds the heap, the lists of names and any_changes; c the arguments and
\* the addresses of updated_available, resolved and failed.  The first
\* call of resolve_function is outside the try.
RECURSIVE VisitNames(_, _, _)
VisitNames(st, names, c) ==
    IF names = <<>> THEN st
    ELSE LET unresolved_name == Head(names)
             unresolved_item == Get(st.h[c.unresolved], unresolved_name)
             item_dependencies == c.dependencies[unresolved_name]
         IN  IF item_dependencies \cap st.failed_names # {}
             THEN VisitNames(
                      [st EXCEPT !.any_changes = TRUE,
                                 !.h = SetItem(@, c.failed, unresolved_name,
                                               unresolved_item),
                                 !.failed_names = @ \cup {unresolved_name}],
                      Tail(names), c)
             ELSE IF item_dependencies \ st.available_names = {}
                  THEN Let(
                               resolve_function(c.kind, unresolved_item,
                                st.h[c.updated_available],
                                st.h[c.available_constants]), LAMBDA resolved_item:
                           IF ~resolved_item.ok
                           THEN [st EXCEPT !.r = resolved_item]
                           ELSE VisitNames(
                                    [st EXCEPT
                                        !.any_changes = TRUE,
                                        !.h = SetItem(SetItem(@, c.resolved,
                                                              unresolved_name,
                                                              resolved_item.v),
                                                      c.updated_available,
                                                      unresolved_name,
                                                      resolved_item.v),
                                        !.available_names =
                                            @ \cup {unresolved_name}],
                                    Tail(names), c))
             ELSE VisitNames(st, Tail(names), c)

\* The names left are marked failed when a pass changed nothing.
RECURSIVE FailNames(_, _, _)
FailNames(st, names, c) ==
    IF names = <<>> THEN st
    ELSE FailNames([st EXCEPT !.h = SetItem(@, c.failed, Head(names),
                                            Get(st.h[c.unresolved], Head(names))),
                              !.failed_names = @ \cup {Head(names)}],
                   Tail(names), c)

\* list(set(...)): the names of the set in the order the hashes give.
ListOfSet(hash_order, names) ==
    LET Member(n) == n \in names IN SelectSeq(hash_order, Member)

Range(s) == {s[i] : i \in 1..Len(s)}

\* The while loop of package.resolve_dependencies.
RECURSIVE WhileUnresolved(_, _)
WhileUnresolved(st, c) ==
    IF st.unresolved_names = <<>> THEN st
    ELSE Let(VisitNames([st EXCEPT !.any_changes = FALSE],
                        st.unresolved_names, c), LAMBDA visited:
         Let(IF visited.any_changes THEN visited
             ELSE FailNames(visited, visited.unresolved_names, c), LAMBDA marked:
             IF ~visited.r.ok THEN visited
             ELSE WhileUnresolved(
                      [marked EXCEPT !.unresolved_names =
                          ListOfSet(c.hash_order,
                                    (Range(marked.unresolved_names)
                                        \ marked.available_names)
                                        \ marked.failed_names)],
                      c)))

\* package.resolve_dependencies(available, unresolved, dependencies,
\* resolve_function): available and unresolved are addresses; the value is
\* the addresses of resolved and failed.
resolve_dependencies(h, available, unresolved, dependencies, kind, available_constants, hash_order) ==
    IF Keys(h[unresolved]) \cap Keys(h[available]) # {}
    THEN [h |-> h, r |-> Error("AssertionError", {})]
    ELSE LET updated_available_ == Len(h) + 1
             resolved_ == Len(h) + 2
             failed_ == Len(h) + 3
         IN  Let(WhileUnresolved(
                     [h |-> h \o <<h[available], <<>>, <<>> >>,
                      r |-> Ok(None),
                      unresolved_names |->
                          [i \in 1..Len(h[unresolved]) |-> h[unresolved][i].key],
                      available_names |-> Keys(h[available]),
                      failed_names |-> {},
                      any_changes |-> FALSE],
                     [unresolved |-> unresolved, dependencies |-> dependencies,
                      kind |-> kind, available_constants |-> available_constants,
                      updated_available |-> updated_available_,
                      resolved |-> resolved_, failed |-> failed_,
                      hash_order |-> hash_order]), LAMBDA st:
             IF ~st.r.ok THEN [h |-> st.h, r |-> st.r]
             ELSE [h |-> st.h,
                   r |-> Ok([resolved |-> resolved_, failed |-> failed_])])

\* The dependencies of the constants and of the types of a dict.
constant_dependencies(constants) ==
    [name \in Keys(constants) |-> get_constant_list(Get(constants, name))]
types_dependencies(types) ==
    [name \in Keys(types) |-> type_dependencies(Get(types, name))]

\* UnresolvedPackage.resolve(packages); the Package returned holds the
\* addresses of its dicts.
UnresolvedPackage_resolve(h, self, packages, hash_order) ==
    Let(resolve_uses(h, self.uses, packages, TRUE), LAMBDA u:
        IF ~u.r.ok THEN u
        ELSE
        Let(combine_packages(u.h, UsedPackages(u.h[u.r.v])), LAMBDA c:
            IF ~c.r.ok THEN c
            ELSE
            Let(resolve_dependencies(
                    c.h, c.r.v.constants, self.constants,
                    constant_dependencies(c.h[self.constants]),
                    "constant", c.r.v.constants, hash_order), LAMBDA rc:
                IF ~rc.r.ok THEN rc
                ELSE
                Let([rc.h EXCEPT ![c.r.v.constants] =
                        Update(@, rc.h[rc.r.v.resolved])], LAMBDA updated:
                Let(resolve_dependencies(
                        updated, c.r.v.types, self.types,
                        types_dependencies(updated[self.types]),
                        "type", c.r.v.constants, hash_order), LAMBDA rt:
                    IF ~rt.r.ok THEN rt
                    ELSE [h |-> rt.h,
                          r |-> Ok([identifier |-> self.identifier,
                                    resolved |-> TRUE,
                                    types |-> rt.r.v.resolved,
                                    constants |-> rc.r.v.resolved,
                                    uses |-> u.r.v])])))))

(***************************************************************************)
(* The state: pc and the generics are shared; typ, data, slv and decoded   *)
(* are the codec's (data, slv and decoded also hold the inputs of an       *)
(* entity, their encoding and its decoding); entity_ports, line and        *)
(* outputs are the entity's; implementation to passes are the resolver's;  *)
(* the rest is that of the resolution of an entity or a package.           *)
(***************************************************************************)
VARIABLES pc, typ, generics, data, slv, decoded, entity_ports, line, outputs,
          implementation, available, dependencies, raising,
          updated_available, unresolved_names, available_names, resolved,
          failed, failed_names, any_changes, todo, calls, passes,
          heap, constructed, unresolved, hash_order, call, result,
          text, parsed, simplified, resimplified,
          old_value, new_value, dummy_index, hit_limit, logged, in_items,
          out_string, place, message, pd, resolved_pd, resolved_package_names,
          toresolve_package_names, any_resolved, pn_index, immediate, handles,
          exc, terminated, ReadOnly_all_futures, RisingEdge_all_futures, ran,
          steps, at_step, child_helpers, events, killed, event_killed,
          awaited, started, last_call, outcome
codecVars == <<typ, generics, data, slv, decoded>>
entityVars == <<entity_ports, line, outputs>>
inputVars == <<implementation, available, dependencies, raising>>
resolverVars ==
    <<inputVars, updated_available, unresolved_names, available_names, resolved,
      failed, failed_names, any_changes, todo, calls, passes>>
resolveVars == <<heap, constructed, unresolved, hash_order, call, result>>
mathVars == <<text, parsed, simplified, resimplified>>
loopVars == <<old_value, new_value, dummy_index, hit_limit, logged>>
linearVars == <<in_items, out_string>>
errorVars == <<place, message>>
packageVars ==
    <<pd, resolved_pd, resolved_package_names, toresolve_package_names,
      any_resolved, pn_index>>
eventVars ==
    <<immediate, handles, exc, terminated, ReadOnly_all_futures,
      RisingEdge_all_futures, ran, steps, at_step>>
helperVars ==
    <<child_helpers, events, killed, event_killed, awaited, started,
      last_call, outcome>>
laterVars ==
    <<loopVars, linearVars, errorVars, packageVars, eventVars, helperVars>>
\* The later parts but one.
exceptLoop == <<linearVars, errorVars, packageVars, eventVars, helperVars>>
exceptLinear == <<loopVars, errorVars, packageVars, eventVars, helperVars>>
exceptErrors == <<loopVars, linearVars, packageVars, eventVars, helperVars>>
exceptPackages == <<loopVars, linearVars, errorVars, eventVars, helperVars>>
exceptEvents == <<loopVars, linearVars, errorVars, packageVars, helperVars>>
exceptHelpers == <<loopVars, linearVars, errorVars, packageVars, eventVars>>
vars ==
    <<pc, codecVars, entityVars, resolverVars, resolveVars, mathVars, laterVars>>

\* No resolver runs.
NoResolver ==
    /\ implementation = "none"
    /\ available = {}
    /\ dependencies = <<>>
    /\ raising = {}
    /\ updated_available = {}
    /\ unresolved_names = {}
    /\ available_names = {}
    /\ resolved = {}
    /\ failed = {}
    /\ failed_names = {}
    /\ any_changes = FALSE
    /\ todo = {}
    /\ calls = <<>>
    /\ passes = 0

\* Nothing is resolved.
NoResolve ==
    /\ heap = <<>>
    /\ constructed = <<>>
    /\ unresolved = None
    /\ hash_order = <<>>
    /\ call = None
    /\ result = None

\* The state of a specification that has no expression of math_parser.
NoMath ==
    /\ text = None
    /\ parsed = None
    /\ simplified = None
    /\ resimplified = None

\* No call of simplify is followed pass by pass.
NoLoop ==
    /\ old_value = None
    /\ new_value = None
    /\ dummy_index = 0
    /\ hit_limit = FALSE
    /\ logged = <<>>

\* No linear expression is simplified.
NoLinear ==
    /\ in_items = <<>>
    /\ out_string = None

\* No bad value is given to inputs_to_slv.
NoErrors ==
    /\ place = None
    /\ message = <<>>

\* resolve_packages is not called.
NoPackages ==
    /\ pd = <<>>
    /\ resolved_pd = <<>>
    /\ resolved_package_names = <<>>
    /\ toresolve_package_names = <<>>
    /\ any_resolved = FALSE
    /\ pn_index = 0

\* No event loop runs.
NoEvents ==
    /\ immediate = <<>>
    /\ handles = 0
    /\ exc = None
    /\ terminated = FALSE
    /\ ReadOnly_all_futures = <<>>
    /\ RisingEdge_all_futures = <<>>
    /\ ran = {}
    /\ steps = 0
    /\ at_step = <<>>

\* No TaskHelper is made.
NoHelpers ==
    /\ child_helpers = <<>>
    /\ events = <<>>
    /\ killed = <<>>
    /\ event_killed = <<>>
    /\ awaited = {}
    /\ started = 0
    /\ last_call = None
    /\ outcome = None

\* The state of the specifications that follow none of the later parts.
NoLater ==
    /\ NoLoop
    /\ NoLinear
    /\ NoErrors
    /\ NoPackages
    /\ NoEvents
    /\ NoHelpers
\* The state of a specification that follows one of the later parts only.
NoneButLoop == NoLinear /\ NoErrors /\ NoPackages /\ NoEvents /\ NoHelpers
NoneButLinear == NoLoop /\ NoErrors /\ NoPackages /\ NoEvents /\ NoHelpers
NoneButErrors == NoLoop /\ NoLinear /\ NoPackages /\ NoEvents /\ NoHelpers
NoneButPackages == NoLoop /\ NoLinear /\ NoErrors /\ NoEvents /\ NoHelpers
NoneButEvents == NoLoop /\ NoLinear /\ NoErrors /\ NoPackages /\ NoHelpers
NoneButHelpers == NoLoop /\ NoLinear /\ NoErrors /\ NoPackages /\ NoEvents

(***************************************************************************)
(* Spec, the codec of a type: a type, generics and a value are given, the  *)
(* value is encoded, and the string is decoded.                            *)
(***************************************************************************)
Init ==
    /\ pc = "start"
    /\ typ \in Types
    /\ generics \in GenericsSet
    /\ data \in Values(typ, generics)
    /\ slv = None
    /\ decoded = None
    /\ entity_ports = <<>>
    /\ line = <<>>
    /\ outputs = None
    /\ NoResolver
    /\ NoResolve
    /\ NoMath
    /\ NoLater

\* slv = typ.to_slv(data, generics)
ToSlv ==
    /\ pc = "start"
    /\ slv' = to_slv(typ, data, generics, TRUE)
    /\ pc' = "encoded"
    /\ UNCHANGED <<typ, generics, data, decoded, entityVars, resolverVars, resolveVars, mathVars, laterVars>>

\* decoded = typ.from_slv(slv, generics)
FromSlv ==
    /\ pc = "encoded"
    /\ slv.ok
    /\ decoded' = from_slv(typ, slv.v, generics)
    /\ pc' = "decoded"
    /\ UNCHANGED <<typ, generics, data, slv, entityVars, resolverVars, resolveVars, mathVars, laterVars>>

Next == ToSlv \/ FromSlv
Spec == Init /\ [][Next]_vars

(***************************************************************************)
(* SpecEntity, the codec of an entity: an entity, generics, a dict of      *)
(* inputs and a line of the simulator's output are given; the inputs are   *)
(* encoded and decoded, and the line is decoded.  The line is what the     *)
(* generated test bench writes for some values of the output ports (their  *)
(* encodings, the last port's first), as it is, with the end of the line,  *)
(* or with one character too many.                                         *)
(***************************************************************************)
InitEntity ==
    /\ pc = "start"
    /\ typ = None
    /\ generics \in GenericsSet
    /\ entity_ports \in Entities
    /\ data \in Values(PortsRecord(input_ports(entity_ports)), generics) \ {None}
    /\ \E d \in PortValues(output_ports(entity_ports), generics) :
          Let(Record_to_slv(PortsRecord(output_ports(entity_ports)),
                            PyDict(d), generics, TRUE).v, LAMBDA written:
              line \in {written, written \o <<"\n">>, <<"1">> \o written})
    /\ slv = None
    /\ decoded = None
    /\ outputs = None
    /\ NoResolver
    /\ NoResolve
    /\ NoMath
    /\ NoLater

\* slv = entity.inputs_to_slv(data, generics)
InputsToSlv ==
    /\ pc = "start"
    /\ slv' = inputs_to_slv(entity_ports, data, generics, FALSE)
    /\ pc' = "encoded"
    /\ UNCHANGED <<typ, generics, data, decoded, entityVars, resolverVars, resolveVars, mathVars, laterVars>>

\* decoded = entity.inputs_from_slv(slv, generics)
InputsFromSlv ==
    /\ pc = "encoded"
    /\ slv.ok
    /\ decoded' = inputs_from_slv(entity_ports, slv.v, generics, None)
    /\ pc' = "decoded"
    /\ UNCHANGED <<typ, generics, data, slv, entityVars, resolverVars, resolveVars, mathVars, laterVars>>

\* outputs = entity.outputs_from_slv(line, generics)
OutputsFromSlv ==
    /\ pc = "decoded"
    /\ outputs' = outputs_from_slv(entity_ports, line, generics, None)
    /\ pc' = "done"
    /\ UNCHANGED <<codecVars, entity_ports, line, resolverVars, resolveVars, mathVars, laterVars>>

NextEntity == InputsToSlv \/ InputsFromSlv \/ OutputsFromSlv
SpecEntity == InitEntity /\ [][NextEntity]_vars

(***************************************************************************)
(* SpecShapes, to_slv on data of any shape: lists of a wrong length or an  *)
(* int where an array is expected, dicts with a key "z" that is no field   *)
(* or without some of the fields where a record is expected, at any depth. *)
(***************************************************************************)
\* The dicts over the fields nas with values from vals(field), for every
\* subset of the fields.
RECURSIVE Shapes(_, _), RecordShapes(_, _)
Shapes(t, gen) ==
    CASE t.kind = "array" ->
            Let(apply_generics(gen, t.size).v, LAMBDA size:
                {PyInt(0), None}
                \cup {PyList(l) : l \in [1..size -> Shapes(t.subtype, gen)]}
                \cup UNION {{PyList(l) : l \in [1..n -> DefinedValues(t.subtype, gen)]} :
                               n \in {size + 1} \cup ({size - 1} \cap Nat)})
      [] t.kind = "record" ->
            {PyDict(d) : d \in RecordShapes(t.names_and_subtypes, gen)}
            \cup {PyDict(DictSet(d, "z", PyInt(0))) :
                     d \in RecordShapes(t.names_and_subtypes, gen)}
            \cup {None}
      [] OTHER -> Values(t, gen)
RecordShapes(nas, gen) ==
    IF nas = <<>> THEN {<<>>}
    ELSE RecordShapes(Tail(nas), gen)
         \cup {DictSet(d, Head(nas).name, v) :
                  d \in RecordShapes(Tail(nas), gen),
                  v \in Shapes(Head(nas).subtype, gen)}

InitShapes ==
    /\ pc = "start"
    /\ typ \in Types
    /\ generics \in GenericsSet
    /\ data \in Shapes(typ, generics)
    /\ slv = None
    /\ decoded = None
    /\ entity_ports = <<>>
    /\ line = <<>>
    /\ outputs = None
    /\ NoResolver
    /\ NoResolve
    /\ NoMath
    /\ NoLater

NextShapes == ToSlv
SpecShapes == InitShapes /\ [][NextShapes]_vars

(***************************************************************************)
(* SpecVector, to_slv of a std_logic_vector or unsigned on any int, in     *)
(* range or not.                                                           *)
(***************************************************************************)
InitVector ==
    /\ pc = "start"
    /\ typ \in {ConstrainedStdLogicVector(size) : size \in VectorSizes}
    /\ generics \in GenericsSet
    /\ data \in {PyInt(n) : n \in (-2)..(Pow2(MaxSize) + 2)}
    /\ slv = None
    /\ decoded = None
    /\ entity_ports = <<>>
    /\ line = <<>>
    /\ outputs = None
    /\ NoResolver
    /\ NoResolve
    /\ NoMath
    /\ NoLater

NextVector == ToSlv
SpecVector == InitVector /\ [][NextVector]_vars

(***************************************************************************)
(* SpecDecode, decoding on its own: a string of '0', '1' and 'U' of any    *)
(* length is given to from_slv of a type, or to inputs_from_slv and        *)
(* outputs_from_slv of an entity.  slv holds the string.                   *)
(***************************************************************************)
RECURSIVE Strings(_)
Strings(n) ==
    IF n = 0 THEN {<<>>}
    ELSE Strings(n - 1)
         \cup {<<c>> \o s : c \in {"0", "1", "U"},
                            s \in {x \in Strings(n - 1) : Len(x) = n - 1}}

InitDecode ==
    /\ pc = "string"
    /\ generics \in GenericsSet
    /\ \/ typ \in Types /\ entity_ports = <<>>
       \/ typ = None /\ entity_ports \in Entities
    /\ slv \in {Ok(x) : x \in Strings(MaxString)}
    /\ data = None
    /\ decoded = None
    /\ line = <<>>
    /\ outputs = None
    /\ NoResolver
    /\ NoResolve
    /\ NoMath
    /\ NoLater

\* decoded = typ.from_slv(slv, generics)
DecodeString ==
    /\ pc = "string"
    /\ typ # None
    /\ decoded' = from_slv(typ, slv.v, generics)
    /\ pc' = "decoded"
    /\ UNCHANGED <<typ, generics, data, slv, entityVars, resolverVars, resolveVars, mathVars, laterVars>>

\* decoded = entity.inputs_from_slv(slv, generics)
DecodeInputs ==
    /\ pc = "string"
    /\ typ = None
    /\ decoded' = inputs_from_slv(entity_ports, slv.v, generics, None)
    /\ pc' = "decoded_inputs"
    /\ UNCHANGED <<typ, generics, data, slv, entityVars, resolverVars, resolveVars, mathVars, laterVars>>

\* outputs = entity.outputs_from_slv(slv, generics)
DecodeOutputs ==
    /\ pc = "string"
    /\ typ = None
    /\ outputs' = outputs_from_slv(entity_ports, slv.v, generics, None)
    /\ pc' = "decoded_outputs"
    /\ UNCHANGED <<codecVars, entity_ports, line, resolverVars, resolveVars, mathVars, laterVars>>

NextDecode == DecodeString \/ DecodeInputs \/ DecodeOutputs
SpecDecode == InitDecode /\ [][NextDecode]_vars

(***************************************************************************)
(* SpecResolver, resolve_dependencies(available, unresolved, dependencies, *)
(* resolve_function) of resolution and of package, one visit of the for    *)
(* loop at a time.  The items are named by Items; a dependency may also be *)
(* on a name of External, which is available or nowhere.  raising holds    *)
(* the items resolve_function raises an exception for.  A list of names    *)
(* is modelled by the set of its members; the loop visits the names of     *)
(* unresolved_names in any order, todo being those it has yet to visit.    *)
(* calls is the history of the invocations of resolve_function: the item   *)
(* the keys of the mapping passed, and available_names at that point;      *)
(* passes counts the iterations of the while loop.                         *)
(***************************************************************************)
Items == {"a", "b", "c"}
External == {"x"}
Implementations == {"resolution", "package"}

InitResolver ==
    /\ pc = "while"
    /\ implementation \in Implementations
    /\ available \in SUBSET External
    /\ dependencies \in [Items -> SUBSET (Items \cup External)]
    /\ raising \in SUBSET Items
    /\ updated_available = available
    /\ unresolved_names = Items
    /\ available_names = available
    /\ resolved = {}
    /\ failed = {}
    /\ failed_names = {}
    /\ any_changes = FALSE
    /\ todo = {}
    /\ calls = <<>>
    /\ passes = 0
    /\ typ = None /\ generics = None /\ data = None /\ slv = None /\ decoded = None
    /\ entity_ports = <<>> /\ line = <<>> /\ outputs = None
    /\ NoResolve
    /\ NoMath
    /\ NoLater

\* A test that lets an item through whatever its dependencies.
NoDependencyCheck(unresolved_name) == TRUE

\* A test that lets an item through as soon as one dependency is available.
SomeDependencyAvailable(unresolved_name) ==
    \/ dependencies[unresolved_name] = {}
    \/ dependencies[unresolved_name] \cap available_names # {}

\* A pass with no change that fails nothing.
NothingFailedForNoChange == {}

\* set(item_dependencies) & set(failed_names)
DependencyFailed(unresolved_name) ==
    dependencies[unresolved_name] \cap failed_names # {}

\* not set(item_dependencies) - set(available_names)
DependenciesAvailable(unresolved_name) ==
    dependencies[unresolved_name] \ available_names = {}

\* package.resolve_dependencies invokes resolve_function once before its
\* try statement: what this invocation raises leaves the function.
InvokedOutsideTry == implementation = "package"

\* A pass that fails every name it began with, whatever it changed.
FailedWhateverChanged == unresolved_names

\* The names the loop at the end of a pass with no change adds to failed.
FailedForNoChange == IF ~any_changes THEN unresolved_names ELSE {}

Call(unresolved_name) ==
    [name |-> unresolved_name, mapping |-> updated_available,
     available_names |-> available_names]

\* while unresolved_names: any_changes = False; for ... in unresolved_names
StartPass ==
    /\ pc = "while"
    /\ unresolved_names # {}
    /\ any_changes' = FALSE
    /\ todo' = unresolved_names
    /\ passes' = passes + 1
    /\ pc' = "for"
    /\ UNCHANGED <<inputVars, updated_available, unresolved_names, available_names,
                   resolved, failed, failed_names, calls, codecVars, entityVars, resolveVars, mathVars, laterVars>>

\* The visit of an item one of whose dependencies has failed.
FailItem(unresolved_name) ==
    /\ pc = "for"
    /\ unresolved_name \in todo
    /\ DependencyFailed(unresolved_name)
    /\ any_changes' = TRUE
    /\ failed' = failed \cup {unresolved_name}
    /\ failed_names' = failed_names \cup {unresolved_name}
    /\ todo' = todo \ {unresolved_name}
    /\ UNCHANGED <<pc, inputVars, updated_available, unresolved_names,
                   available_names, resolved, calls, passes, codecVars, entityVars, resolveVars, mathVars, laterVars>>

\* The visit of an item whose dependencies are all available:
\* resolve_function is invoked.
ResolveItem(unresolved_name) ==
    /\ pc = "for"
    /\ unresolved_name \in todo
    /\ ~DependencyFailed(unresolved_name)
    /\ DependenciesAvailable(unresolved_name)
    /\ todo' = todo \ {unresolved_name}
    /\ IF InvokedOutsideTry /\ unresolved_name \in raising
       THEN \* the exception leaves resolve_dependencies
            /\ pc' = "raised"
            /\ calls' = Append(calls, Call(unresolved_name))
            /\ UNCHANGED <<any_changes, updated_available, available_names, resolved,
                           failed, failed_names>>
       ELSE /\ pc' = pc
            /\ any_changes' = TRUE
            /\ calls' = IF InvokedOutsideTry
                        THEN calls \o <<Call(unresolved_name), Call(unresolved_name)>>
                        ELSE Append(calls, Call(unresolved_name))
            /\ IF unresolved_name \in raising
               THEN /\ failed' = failed \cup {unresolved_name}
                    /\ failed_names' = failed_names \cup {unresolved_name}
                    /\ UNCHANGED <<updated_available, available_names, resolved>>
               ELSE /\ resolved' = resolved \cup {unresolved_name}
                    /\ updated_available' = updated_available \cup {unresolved_name}
                    /\ available_names' = available_names \cup {unresolved_name}
                    /\ UNCHANGED <<failed, failed_names>>
    /\ UNCHANGED <<inputVars, unresolved_names, passes, codecVars, entityVars, resolveVars, mathVars, laterVars>>

\* The visit of an item that has to wait.
SkipItem(unresolved_name) ==
    /\ pc = "for"
    /\ unresolved_name \in todo
    /\ ~DependencyFailed(unresolved_name)
    /\ ~DependenciesAvailable(unresolved_name)
    /\ todo' = todo \ {unresolved_name}
    /\ UNCHANGED <<pc, inputVars, updated_available, unresolved_names, available_names,
                   resolved, failed, failed_names, any_changes, calls, passes,
                   codecVars, entityVars, resolveVars, mathVars, laterVars>>

\* The end of a pass: if not any_changes, every name left has failed; the
\* names now available or failed leave unresolved_names.
EndPass ==
    /\ pc = "for"
    /\ todo = {}
    /\ failed' = failed \cup FailedForNoChange
    /\ failed_names' = failed_names \cup FailedForNoChange
    /\ unresolved_names' = (unresolved_names \ available_names) \ failed_names'
    /\ pc' = "while"
    /\ UNCHANGED <<inputVars, updated_available, available_names, resolved,
                   any_changes, todo, calls, passes, codecVars, entityVars, resolveVars, mathVars, laterVars>>

\* return resolved, failed
Return ==
    /\ pc = "while"
    /\ unresolved_names = {}
    /\ pc' = "returned"
    /\ UNCHANGED <<resolverVars, codecVars, entityVars, resolveVars, mathVars, laterVars>>

NextResolver ==
    \/ StartPass
    \/ \E unresolved_name \in Items :
          \/ FailItem(unresolved_name)
          \/ ResolveItem(unresolved_name)
          \/ SkipItem(unresolved_name)
    \/ EndPass
    \/ Return
SpecResolver == InitResolver /\ [][NextResolver]_vars

(***************************************************************************)
(* SpecResolve, UnresolvedEntity.resolve and UnresolvedPackage.resolve.    *)
(* The heap holds the dicts of two packages, of two mappings of packages   *)
(* and of one unresolved entity or package, at the addresses of Layout;    *)
(* constructed is the heap as it was built.  A resolve runs to its end in  *)
(* one step on the heap as the calls before it left it; the dicts it made  *)
(* are dropped once its value is read into result; call holds its          *)
(* arguments and whether it came after another.  hash_order is the order   *)
(* list(set(...)) gives names in this process.                             *)
(***************************************************************************)
MaxPorts == 3

Layout ==
    [std_types |-> 1, std_constants |-> 2, pkg_types |-> 3, pkg_constants |-> 4,
     packages |-> 5, other_packages |-> 6, uses |-> 7, generics |-> 8,
     constants |-> 8, ports |-> 9, types |-> 9]

Entry(key, val) == [key |-> key, val |-> val]

StdTypes ==
    <<Entry("std_logic", StdLogic), Entry("std_logic_vector", StdLogicVector)>>
PkgTypes == <<Entry("t", Enumeration(<<"red", "green">>))>>
\* The second one has a constant named as the generic of the entity is.
PkgConstants ==
    {<<Entry("w", Num(2))>>, <<Entry("w", Num(2)), Entry("g", Num(1))>>}

std_logic_1164 ==
    Package("std_logic_1164", Layout.std_types, Layout.std_constants)
pkg == Package("pkg", Layout.pkg_types, Layout.pkg_constants)
pkg_unresolved ==
    UnresolvedPackage("pkg", Layout.pkg_types, Layout.pkg_constants, Layout.uses)

PackagesMappings ==
    {<<Entry("std_logic_1164", std_logic_1164), Entry("pkg", pkg)>>,
     <<Entry("std_logic_1164", std_logic_1164)>>,
     <<Entry("std_logic_1164", std_logic_1164), Entry("pkg", pkg_unresolved)>>}

UsesDicts ==
    {<<Entry("std_logic_1164", Use("std_logic_1164", None))>>,
     <<Entry("std_logic_1164", Use("std_logic_1164", None)),
       Entry("pkg", Use("pkg", None))>>}

\* The types a port is declared with.
PortTyps ==
    {TypeName("std_logic"), TypeName("std_logic_vector"), TypeName("t"),
     UnresolvedConstrainedStdLogicVector(Name("w")),
     UnresolvedConstrainedStdLogicVector(Name("g")),
     UnresolvedRecord(<<Field("f", TypeName("t"))>>)}

PortNames == <<"a", "b", "c", "d", "e">>

PortsDicts ==
    UNION {{[i \in 1..n |-> Entry(PortNames[i], Port(PortNames[i], "in", f[i]))] :
               f \in [1..n -> PortTyps]} : n \in 1..MaxPorts}

GenericsDict == <<Entry("g", Generic("g"))>>

\* The constants and the types of an unresolved package.
ConstantsDicts ==
    {<<>>, <<Entry("k", Num(2))>>, <<Entry("k", Name("w"))>>,
     <<Entry("j", Name("k")), Entry("k", Name("w"))>>,
     <<Entry("k", Name("j")), Entry("j", Name("k"))>>}

TypeChoices ==
    {[n \in {"x", "y", "z"} |-> IF n = "x" THEN cx ELSE IF n = "y" THEN cy ELSE cz] :
        cx \in {UnresolvedConstrainedStdLogicVector(Num(2)),
                UnresolvedConstrainedStdLogicVector(Name("k")),
                UnresolvedConstrainedStdLogicVector(Name("q"))},
        cy \in {UnresolvedConstrainedArray(Name("q"), "x"),
                UnresolvedConstrainedArray(Name("k"), "std_logic_vector"),
                UnresolvedRecord(<<Field("f", TypeName("x"))>>)},
        cz \in {UnresolvedConstrainedArray(Num(2), "x"), UnresolvedArray("x")}}

TypesDicts ==
    {[i \in 1..Len(ListOfSet(order, S)) |->
         Entry(ListOfSet(order, S)[i], choice[ListOfSet(order, S)[i]])] :
        order \in {<<"y", "z", "x">>, <<"x", "y", "z">>},
        S \in SUBSET {"x", "y", "z"},
        choice \in TypeChoices}

HashOrders ==
    {s \o <<"k", "j">> : s \in {t \in [1..3 -> {"x", "y", "z"}] :
                                   Range(t) = {"x", "y", "z"}}}

unresolved_entity ==
    [cls |-> "UnresolvedEntity", identifier |-> "E", generics |-> Layout.generics,
     ports |-> Layout.ports, uses |-> Layout.uses]
unresolved_package ==
    [cls |-> "UnresolvedPackage", identifier |-> "p",
     constants |-> Layout.constants, types |-> Layout.types, uses |-> Layout.uses]

InitResolve ==
    /\ pc = "constructed"
    /\ \E packages \in PackagesMappings, uses \in UsesDicts :
          \/ /\ unresolved = unresolved_entity
             /\ hash_order = <<>>
             /\ \E pkg_constants \in PkgConstants, ports \in PortsDicts :
                   heap = <<StdTypes, <<>>, PkgTypes, pkg_constants, packages,
                            <<Entry("std_logic_1164", std_logic_1164)>>, uses,
                            GenericsDict, ports>>
          \/ /\ unresolved = unresolved_package
             /\ hash_order \in HashOrders
             /\ \E constants \in ConstantsDicts, types \in TypesDicts :
                   heap = <<StdTypes, <<>>, PkgTypes, <<Entry("w", Num(2))>>,
                            packages, <<Entry("std_logic_1164", std_logic_1164)>>,
                            uses, constants, types>>
    /\ constructed = heap
    /\ call = None
    /\ result = None
    /\ typ = None /\ generics = None /\ data = None /\ slv = None /\ decoded = None
    /\ entity_ports = <<>> /\ line = <<>> /\ outputs = None
    /\ NoResolver
    /\ NoMath
    /\ NoLater

\* What an Entity or a Package holds, its dicts read from the heap; the
\* generics of an Entity stay the dict of the unresolved entity.
ValueOf(h, object) ==
    IF "ports" \in DOMAIN object
    THEN [identifier |-> object.identifier, generics |-> object.generics,
          ports |-> h[object.ports], uses |-> h[object.uses]]
    ELSE [identifier |-> object.identifier, types |-> h[object.types],
          constants |-> h[object.constants], uses |-> h[object.uses]]

ResultOf(out) == IF out.r.ok THEN Ok(ValueOf(out.h, out.r.v)) ELSE out.r

\* result = unresolved.resolve(packages, must_resolve) of an entity
ResolveEntity ==
    /\ pc \in {"constructed", "resolved"}
    /\ unresolved.cls = "UnresolvedEntity"
    /\ \E packages \in {Layout.packages, Layout.other_packages},
          must_resolve \in BOOLEAN :
          /\ heap' = SubSeq(UnresolvedEntity_resolve(heap, unresolved, packages,
                                                     must_resolve).h,
                            1, Len(heap))
          /\ result' = ResultOf(UnresolvedEntity_resolve(heap, unresolved,
                                                         packages, must_resolve))
          /\ call' = [again |-> pc = "resolved", packages |-> packages,
                      must_resolve |-> must_resolve]
    /\ pc' = "resolved"
    /\ UNCHANGED <<constructed, unresolved, hash_order, codecVars, entityVars,
                   resolverVars, mathVars, laterVars>>

\* result = unresolved.resolve(packages) of a package
ResolvePackage ==
    /\ pc \in {"constructed", "resolved"}
    /\ unresolved.cls = "UnresolvedPackage"
    /\ \E packages \in {Layout.packages, Layout.other_packages} :
          /\ heap' = SubSeq(UnresolvedPackage_resolve(heap, unresolved, packages,
                                                      hash_order).h,
                            1, Len(heap))
          /\ result' = ResultOf(UnresolvedPackage_resolve(heap, unresolved,
                                                          packages, hash_order))
          /\ call' = [again |-> pc = "resolved", packages |-> packages,
                      must_resolve |-> TRUE]
    /\ pc' = "resolved"
    /\ UNCHANGED <<constructed, unresolved, hash_order, codecVars, entityVars,
                   resolverVars, mathVars, laterVars>>

NextResolve == ResolveEntity \/ ResolvePackage
SpecResolve == InitResolve /\ [][NextResolve]_vars

(***************************************************************************)
(* SpecSimplify, simplify applied twice: an expression is built, as a tree *)
(* of Addition, Multiplication and Function over names and integers or by  *)
(* parse_string from tokens, it is simplified, and what simplify returned  *)
(* is simplified again.  text is the tokens parsed (None for a tree built  *)
(* directly), parsed the expression.                                       *)
(***************************************************************************)
\* The longest Addition or Multiplication over leaves, and the longest text.
MaxTerms == 2
MaxTokens == 4

SequencesUpTo(S, n) == UNION {[1..m -> S] : m \in 1..n}
Leaves == {Name("x"), Name("y"), Num(0), Num(1), Num(2)}
Numbers == {1, -1, 2}
TermsOf(S) == {Term(Num(n), e) : n \in Numbers, e \in S}
PowersOf(S) == {Power(n, e) : n \in Numbers, e \in S}
\* The trees of one level over the leaves S; f is not registered.
FlatTrees(S, n) ==
    {Addition(t) : t \in SequencesUpTo(TermsOf(S), n)}
    \cup {Multiplication(p) : p \in SequencesUpTo(PowersOf(S), n)}
    \cup {Function(name, <<e>>) : name \in {"logceil", "f"}, e \in S}
    \cup {Function("maximum", <<a, b>>) : a \in S, b \in S}
\* The trees of two levels: one item is a leaf or a tree of one level over
\* x and 2, the other item, if any, is a leaf.
NestedTrees ==
    Let(FlatTrees({Name("x"), Num(2)}, 2) \cup Leaves, LAMBDA inner:
        {Addition(<<a>>) : a \in TermsOf(inner)}
        \cup {Addition(<<a, b>>) : a \in TermsOf(inner), b \in TermsOf(Leaves)}
        \cup {Addition(<<b, a>>) : a \in TermsOf(inner), b \in TermsOf(Leaves)}
        \cup {Multiplication(<<a>>) : a \in PowersOf(inner)}
        \cup {Multiplication(<<a, b>>) : a \in PowersOf(inner), b \in PowersOf(Leaves)}
        \cup {Multiplication(<<b, a>>) : a \in PowersOf(inner), b \in PowersOf(Leaves)}
        \cup {Function(name, <<e>>) : name \in {"logceil", "f"}, e \in inner}
        \cup {Function("maximum", <<a, b>>) : a \in inner, b \in Leaves})
\* Products that hold a product of x and y, as x * (x * y) and y / (x / y).
ProductsOfProducts ==
    {Multiplication(<<Power(n, a),
                      Power(m, Multiplication(<<Power(1, Name("x")),
                                                Power(k, Name("y"))>>))>>) :
        n \in Numbers, m \in Numbers, k \in Numbers,
        a \in {Name("x"), Name("y"), Num(2)}}
Trees ==
    Leaves \cup FlatTrees(Leaves, MaxTerms) \cup NestedTrees
    \cup ProductsOfProducts
Tokens ==
    {Name("x"), Num(2), Name("+"), Name("-"), Name("*"), Name("/"),
     Name("("), Name(")")}
Texts == SequencesUpTo(Tokens, MaxTokens)

InitSimplify ==
    /\ pc = "parsed"
    /\ \/ text = None /\ parsed \in Trees
       \/ \E s \in Texts : text = PyStr(s) /\ parsed = parse_string(s)
    /\ simplified = None
    /\ resimplified = None
    /\ typ = None /\ generics = None /\ data = None /\ slv = None /\ decoded = None
    /\ entity_ports = <<>> /\ line = <<>> /\ outputs = None
    /\ NoResolver
    /\ NoResolve
    /\ NoLater

\* simplified = simplify(parsed), when parse returned an expression.
Simplify ==
    /\ pc = "parsed"
    /\ ~IsRaised(parsed)
    /\ simplified' = simplify(parsed)
    /\ pc' = "simplified"
    /\ UNCHANGED <<text, parsed, resimplified, codecVars, entityVars,
                   resolverVars, resolveVars, laterVars>>

\* resimplified = simplify(simplified), when simplify returned.
SimplifyAgain ==
    /\ pc = "simplified"
    /\ ~IsRaised(simplified)
    /\ resimplified' = simplify(simplified)
    /\ pc' = "resimplified"
    /\ UNCHANGED <<text, parsed, simplified, codecVars, entityVars,
                   resolverVars, resolveVars, laterVars>>

NextSimplify == Simplify \/ SimplifyAgain
SpecSimplify == InitSimplify /\ [][NextSimplify]_vars

(***************************************************************************)
(* SpecRender, an expression rendered and read back: a ground expression   *)
(* of the shape parse builds (every Term of number 1 or -1, every          *)
(* Multiplication of a first Power of number 1 and one more Power or       *)
(* several of number 1 or -1) is rendered by str_expression, and the text  *)
(* is given to parse_and_simplify.  parsed is the expression, text what    *)
(* str_expression returned or raised, simplified what parse_and_simplify   *)
(* returned or raised.                                                     *)
(***************************************************************************)
GroundLeaves == {Num(0), Num(1), Num(2)}
Signs == {1, -1}
GroundTerms(S) == {Term(Num(n), e) : n \in Signs, e \in S}
GroundPowers(S) == {Power(n, e) : n \in Signs, e \in S}
GroundFlat(n) ==
    {Addition(t) : t \in SequencesUpTo(GroundTerms(GroundLeaves), n)}
    \cup {Multiplication(<<Power(1, e)>> \o p) :
            e \in GroundLeaves,
            p \in SequencesUpTo(GroundPowers(GroundLeaves), n - 1)}
    \cup {Function("logceil", <<e>>) : e \in GroundLeaves}
    \cup {Function("maximum", <<a, b>>) : a \in GroundLeaves, b \in GroundLeaves}
GroundNested ==
    Let(GroundFlat(2) \cup GroundLeaves, LAMBDA inner:
        {Addition(<<a>>) : a \in GroundTerms(inner)}
        \cup {Addition(<<a, b>>) : a \in GroundTerms(inner), b \in GroundTerms(inner)}
        \cup {Multiplication(<<Power(1, e), b>>) : e \in inner, b \in GroundPowers(inner)}
        \cup {Function("logceil", <<e>>) : e \in inner}
        \cup {Function("maximum", <<a, b>>) : a \in inner, b \in GroundLeaves})
GroundTrees == GroundLeaves \cup GroundFlat(MaxTerms) \cup GroundNested

InitRender ==
    /\ pc = "built"
    /\ parsed \in GroundTrees
    /\ text = None
    /\ simplified = None
    /\ resimplified = None
    /\ typ = None /\ generics = None /\ data = None /\ slv = None /\ decoded = None
    /\ entity_ports = <<>> /\ line = <<>> /\ outputs = None
    /\ NoResolver
    /\ NoResolve
    /\ NoLater

\* text = str_expression(parsed)
Render ==
    /\ pc = "built"
    /\ text' = str_expression(parsed)
    /\ pc' = "rendered"
    /\ UNCHANGED <<parsed, simplified, resimplified, codecVars, entityVars,
                   resolverVars, resolveVars, laterVars>>

\* simplified = parse_and_simplify(text), when str_expression returned.
ParseAndSimplify ==
    /\ pc = "rendered"
    /\ text.ok
    /\ simplified' = parse_and_simplify(text.v)
    /\ pc' = "reparsed"
    /\ UNCHANGED <<text, parsed, resimplified, codecVars, entityVars,
                   resolverVars, resolveVars, laterVars>>

NextRender == Render \/ ParseAndSimplify
SpecRender == InitRender /\ [][NextRender]_vars

(***************************************************************************)
(* SpecPasses, simplify followed pass by pass: old_value, new_value,       *)
(* dummy_index and hit_limit are the variables of simplify, logged the     *)
(* texts given to logger.warning, parsed the item given and simplified     *)
(* what the call returned or raised.  The items are the expressions of     *)
(* SpecSimplify and Additions of one Term that holds Terms in Terms, each  *)
(* of which Addition.simplify opens one pass later than the last.          *)
(***************************************************************************)
\* The largest number of Terms one in another.
MaxNest == 7

RECURSIVE Nest(_, _, _)
Nest(n, number, leaf) ==
    IF n = 0 THEN leaf ELSE Term(Num(number), Nest(n - 1, number, leaf))
NestLeaves ==
    {Name("x"), Num(1), Unknown(Name("x")), Function("f", <<Name("x")>>)}
NestedTerms ==
    {Nest(n, number, leaf) : n \in 1..MaxNest, number \in Numbers, leaf \in NestLeaves}
PassTrees ==
    {Addition(<<t>>) : t \in NestedTerms}
    \cup {Addition(<<t, Term(Num(1), Name("y"))>>) : t \in NestedTerms}
    \cup Trees

InitPasses ==
    /\ pc = "for"
    /\ parsed \in PassTrees
    /\ old_value = parsed
    /\ new_value = None
    /\ dummy_index = 0
    /\ hit_limit = TRUE
    /\ logged = <<>>
    /\ text = None
    /\ simplified = None
    /\ resimplified = None
    /\ typ = None /\ generics = None /\ data = None /\ slv = None /\ decoded = None
    /\ entity_ports = <<>> /\ line = <<>> /\ outputs = None
    /\ NoResolver
    /\ NoResolve
    /\ NoneButLoop

\* One turn of the for loop of simplify, the one of index dummy_index: a
\* pass on old_value, and the break when the pass has changed nothing.  An
\* exception of the pass leaves simplify.
Pass ==
    /\ pc = "for"
    /\ dummy_index < max_simplifications
    /\ Let(SimplifyPass(old_value), LAMBDA value_of_pass:
           IF IsRaised(value_of_pass)
           THEN /\ simplified' = value_of_pass
                /\ pc' = "pass raised"
                /\ UNCHANGED <<old_value, new_value, dummy_index, hit_limit>>
           ELSE IF PyEq(old_value, value_of_pass)
           THEN /\ new_value' = value_of_pass
                /\ hit_limit' = FALSE
                /\ pc' = "after for"
                /\ UNCHANGED <<old_value, dummy_index, simplified>>
           ELSE /\ new_value' = value_of_pass
                /\ old_value' = value_of_pass
                /\ IF dummy_index + 1 < max_simplifications
                   THEN dummy_index' = dummy_index + 1 /\ pc' = "for"
                   ELSE dummy_index' = dummy_index /\ pc' = "after for"
                /\ UNCHANGED <<hit_limit, simplified>>)
    /\ UNCHANGED <<text, parsed, resimplified, logged, codecVars, entityVars,
                   resolverVars, resolveVars,
                   exceptLoop>>

\* After the loop: the warning when hit_limit is still True, whose text is
\* str_expression(new_value), and the return of new_value.
WarnAndReturn ==
    /\ pc = "after for"
    /\ IF hit_limit
       THEN Let(str_expression(new_value), LAMBDA s:
                IF s.ok
                THEN /\ logged' = Append(logged, s.v)
                     /\ simplified' = new_value
                     /\ pc' = "returned"
                ELSE /\ simplified' = Raised(s.err)
                     /\ pc' = "warning raised"
                     /\ UNCHANGED logged)
       ELSE /\ simplified' = new_value
            /\ pc' = "returned"
            /\ UNCHANGED logged
    /\ UNCHANGED <<text, parsed, resimplified, old_value, new_value, dummy_index,
                   hit_limit, codecVars, entityVars, resolverVars, resolveVars,
                   exceptLoop>>

NextPasses == Pass \/ WarnAndReturn
SpecPasses == InitPasses /\ [][NextPasses]_vars

(***************************************************************************)
(* SpecLinear, parse_and_simplify on a linear expression: in_items is a    *)
(* sum of items, each a sign, a factor written or not, and an atom or a    *)
(* parenthesised sum of two atoms; text is the expression as tokens,       *)
(* simplified what parse_and_simplify returned and out_string what         *)
(* str_expression returned for it.                                         *)
(***************************************************************************)
MaxCoefficient == 2
Atoms == {Name("x"), Name("y"), Num(1)}
SignedAtoms == {[sign |-> s, atom |-> a] : s \in Signs, a \in Atoms}
LinearItem(sign, written, factor, paren, body) ==
    [sign |-> sign, written |-> written, factor |-> factor, paren |-> paren,
     body |-> body]
\* An atom with or without a factor: x, 2*x, 0*y, 1.
SimpleItems ==
    {LinearItem(s, FALSE, 1, FALSE, <<[sign |-> 1, atom |-> a]>>) :
        s \in Signs, a \in Atoms}
    \cup {LinearItem(s, TRUE, f, FALSE, <<[sign |-> 1, atom |-> a]>>) :
        s \in Signs, f \in 0..MaxCoefficient, a \in Atoms}
\* A sum of two atoms in parentheses with or without a factor: 2*(x - y).
ParenthesisedItems ==
    {LinearItem(s, FALSE, 1, TRUE, <<[sign |-> 1, atom |-> a], b>>) :
        s \in Signs, a \in Atoms, b \in SignedAtoms}
    \cup {LinearItem(s, TRUE, f, TRUE, <<[sign |-> 1, atom |-> a], b>>) :
        s \in Signs, f \in 0..MaxCoefficient, a \in Atoms, b \in SignedAtoms}
\* fish + 8*bear + 2 * (fish - bear) of test_simplifications, x for fish and
\* y for bear.
FishAndBear ==
    <<LinearItem(1, FALSE, 1, FALSE, <<[sign |-> 1, atom |-> Name("x")]>>),
      LinearItem(1, TRUE, 8, FALSE, <<[sign |-> 1, atom |-> Name("y")]>>),
      LinearItem(1, TRUE, 2, TRUE, <<[sign |-> 1, atom |-> Name("x")],
                                     [sign |-> -1, atom |-> Name("y")]>>)>>
LinearExpressions ==
    SequencesUpTo(SimpleItems, 3)
    \cup {<<p>> : p \in ParenthesisedItems}
    \cup {<<s, p>> : s \in SimpleItems, p \in ParenthesisedItems}
    \cup {<<p, s>> : p \in ParenthesisedItems, s \in SimpleItems}
    \cup {FishAndBear}

\* The tokens of a body: the atoms, with the sign of each but a leading '+'.
RECURSIVE BodyTokens(_, _)
BodyTokens(body, first) ==
    IF body = <<>> THEN <<>>
    ELSE (IF Head(body).sign = -1 THEN <<Name("-")>>
          ELSE IF first THEN <<>> ELSE <<Name("+")>>)
         \o <<Head(body).atom>> \o BodyTokens(Tail(body), FALSE)
\* The tokens of the items: sign, factor and '*', then the body.
RECURSIVE LinearTokens(_, _)
LinearTokens(items, first) ==
    IF items = <<>> THEN <<>>
    ELSE LET item == Head(items)
         IN  (IF item.sign = -1 THEN <<Name("-")>>
              ELSE IF first THEN <<>> ELSE <<Name("+")>>)
             \o (IF item.written THEN <<Num(item.factor), Name("*")>> ELSE <<>>)
             \o (IF item.paren
                 THEN <<Name("(")>> \o BodyTokens(item.body, TRUE) \o <<Name(")")>>
                 ELSE BodyTokens(item.body, TRUE))
             \o LinearTokens(Tail(items), FALSE)

InitLinear ==
    /\ pc = "in_string"
    /\ in_items \in LinearExpressions
    /\ text = PyStr(LinearTokens(in_items, TRUE))
    /\ out_string = None
    /\ parsed = None
    /\ simplified = None
    /\ resimplified = None
    /\ typ = None /\ generics = None /\ data = None /\ slv = None /\ decoded = None
    /\ entity_ports = <<>> /\ line = <<>> /\ outputs = None
    /\ NoResolver
    /\ NoResolve
    /\ NoneButLinear

\* simplified = sm.parse_and_simplify(in_string)
SimplifyLinear ==
    /\ pc = "in_string"
    /\ simplified' = parse_and_simplify(text)
    /\ pc' = "out"
    /\ UNCHANGED <<text, parsed, resimplified, in_items, out_string, codecVars,
                   entityVars, resolverVars, resolveVars, exceptLinear>>

\* out_string = sm.str_expression(simplified)
RenderLinear ==
    /\ pc = "out"
    /\ ~IsRaised(simplified)
    /\ out_string' = str_expression(simplified)
    /\ pc' = "out_string"
    /\ UNCHANGED <<text, parsed, simplified, resimplified, in_items, codecVars,
                   entityVars, resolverVars, resolveVars, exceptLinear>>

NextLinear == SimplifyLinear \/ RenderLinear
SpecLinear == InitLinear /\ [][NextLinear]_vars

(***************************************************************************)
(* SpecErrors, inputs_to_slv on a bad value: the entity is SimplePorts of  *)
(* test_toslverror with arrays of two elements and vectors of one bit,     *)
(* data gives every input port a legal value but for one bad thing at      *)
(* place: a value no leaf takes (at a port, at an element of an array or   *)
(* at a field of a record of an array), an element the record does not     *)
(* have, or a list that is too short.  slv is what inputs_to_slv returned  *)
(* or raised and message the args[0] of the ToSlvError.                    *)
(***************************************************************************)
data_t == ConstrainedStdLogicVector(Num(1))
SimplePorts ==
    <<Port("i_valid", "in", StdLogic),
      Port("i_data", "in", ConstrainedArray(Num(2), data_t)),
      Port("i_mixtures", "in", ConstrainedArray(Num(2), mixture_t)),
      Port("o_valid", "out", StdLogic)>>
\* No leaf of SimplePorts takes one of these.
BadValues == {PyInt(2), PyInt(-1), PyStr("red")}
Place(kind, port, index, field, bad) ==
    [kind |-> kind, port |-> port, index |-> index, field |-> field, value |-> bad]
\* index is 0 for what is in no array, field "" for what is in no record.
Places ==
    {Place("value", "i_valid", 0, "", v) : v \in BadValues}
    \cup {Place("value", "i_data", i, "", v) : i \in 1..2, v \in BadValues}
    \cup {Place("value", "i_mixtures", i, f, v) :
             i \in 1..2, f \in {"is_happy", "color"}, v \in BadValues}
    \cup {Place("element", "i_mixtures", i, "is_sad", PyInt(0)) : i \in 1..2}
    \cup {Place("length", p, 0, "", None) : p \in {"i_data", "i_mixtures"}}
\* The value of the port with the bad thing put at the place.
Spoil(port_value, at) ==
    CASE at.kind = "length" -> PyList(Tail(port_value.v))
      [] at.index = 0 -> at.value
      [] at.field = "" -> PyList([port_value.v EXCEPT ![at.index] = at.value])
      [] OTHER ->
            PyList([port_value.v EXCEPT
                       ![at.index] = PyDict(DictSet(@.v, at.field, at.value))])

InitErrors ==
    /\ pc = "inputs"
    /\ typ = None
    /\ generics \in GenericsSet
    /\ entity_ports = SimplePorts
    /\ place \in Places
    /\ \E d \in PortValues(input_ports(SimplePorts), generics) :
          data = PyDict(DictSet(d, place.port, Spoil(d[place.port], place)))
    /\ slv = None
    /\ message = <<>>
    /\ decoded = None
    /\ line = <<>>
    /\ outputs = None
    /\ NoResolver
    /\ NoResolve
    /\ NoMath
    /\ NoneButErrors

\* slv_inputs = resolved_entity.inputs_to_slv(data, generics), and the
\* message of the ToSlvError it raises.
InputsToSlvOrMessage ==
    /\ pc = "inputs"
    /\ slv' = inputs_to_slv(entity_ports, data, generics, FALSE)
    /\ message' = inputs_to_slv_message("simpleports", entity_ports, data,
                                        generics, FALSE)
    /\ pc' = IF slv'.ok THEN "returned" ELSE "raised"
    /\ UNCHANGED <<typ, generics, data, decoded, entityVars, place, resolverVars,
                   resolveVars, mathVars, exceptErrors>>

NextErrors == InputsToSlvOrMessage
SpecErrors == InitErrors /\ [][NextErrors]_vars

(***************************************************************************)
(* SpecPackages, package.resolve_packages statement by statement.  A       *)
(* package is its identifier, the names of the packages it uses and the    *)
(* names it declares.  pd and resolved_pd are the dicts of the function    *)
(* (a function from the name to the package), resolved_package_names and   *)
(* toresolve_package_names its lists, any_resolved its flag and pn_index   *)
(* the place of pn in the for loop.                                        *)
(***************************************************************************)
\* An UnresolvedPackage as resolve_packages sees it: the keys of its uses
\* and the names it declares.
PackageOf(identifier, uses, declared) ==
    [identifier |-> identifier, uses |-> uses, types |-> declared]
standard_packages == <<"std_logic_1164", "numeric_std", "math_real", "textio">>
\* resolved_pd as resolve_packages makes it.
BuiltinPackages ==
    [n \in {standard_packages[i] : i \in 1..Len(standard_packages)} |->
        PackageOf(n, {},
            CASE n = "std_logic_1164" -> {"std_logic_vector", "std_logic"}
              [] n = "numeric_std" -> {"unsigned", "signed"}
              [] OTHER -> {})]
\* Package b, and c if there is one, may declare a type t; package a may
\* use numeric_std or d, a package that is not given.
PackageLists ==
    LET others == {{}, {"numeric_std"}, {"d"}}
        as == {PackageOf("a", u \cup o, {}) :
                  u \in SUBSET {"a", "b", "c"}, o \in others}
        bs == {PackageOf("b", u, t) :
                  u \in SUBSET {"a", "b", "c"}, t \in {{}, {"t"}}}
        cs == {PackageOf("c", u, t) :
                  u \in SUBSET {"a", "b", "c"}, t \in {{}, {"t"}}}
    IN  {<<>>} \cup {<<a, b>> : a \in as, b \in bs}
        \cup {<<a, b, c>> : a \in as, b \in bs, c \in cs}

\* A test that lets every package through.
dependencies_ignored(used, names) == TRUE
\* not (set(dependencies) - set(resolved_package_names))
dependencies_resolved(used, names) ==
    used \ {names[i] : i \in 1..Len(names)} = {}

\* combine_packages on the packages used: the assertion of
\* exclusive_dict_merge fails when two of them declare the same name.
CombineNames(used) ==
    IF \E p \in used, q \in used : p # q /\ p.types \cap q.types # {}
    THEN Raise("AssertionError")
    ELSE Ok(UNION {p.types : p \in used})
\* UnresolvedPackage.resolve(packages): the Package, or what resolve_uses
\* or combine_packages raised.
pd_pn_resolve(package, resolved_packages) ==
    IF package.uses \ DOMAIN resolved_packages # {} THEN Raise("Exception")
    ELSE Let(CombineNames({resolved_packages[n] : n \in package.uses}),
             LAMBDA combined: IF ~combined.ok THEN combined ELSE Ok(package))

InitPackages ==
    /\ pc = "while"
    /\ \E given \in PackageLists :
          /\ pd = [n \in {given[i].identifier : i \in 1..Len(given)} |->
                      given[CHOOSE i \in 1..Len(given) : given[i].identifier = n]]
          /\ toresolve_package_names = [i \in 1..Len(given) |-> given[i].identifier]
    /\ resolved_pd = BuiltinPackages
    /\ resolved_package_names = standard_packages
    /\ any_resolved = FALSE
    /\ pn_index = 0
    /\ typ = None /\ generics = None /\ data = None /\ slv = None /\ decoded = None
    /\ entity_ports = <<>> /\ line = <<>> /\ outputs = None
    /\ NoResolver
    /\ NoResolve
    /\ NoMath
    /\ NoneButPackages

\* while toresolve_package_names: any_resolved = False, or the return.
While ==
    /\ pc = "while"
    /\ IF toresolve_package_names = <<>>
       THEN /\ pc' = "returned"
            /\ UNCHANGED <<any_resolved, pn_index>>
       ELSE /\ pc' = "for"
            /\ any_resolved' = FALSE
            /\ pn_index' = 1
    /\ UNCHANGED <<pd, resolved_pd, resolved_package_names,
                   toresolve_package_names>>
    /\ UNCHANGED <<codecVars, entityVars, resolverVars, resolveVars, mathVars,
                   exceptPackages>>

\* One turn of the for loop, for pn = toresolve_package_names[pn_index].
ForPn ==
    /\ pc = "for"
    /\ pn_index <= Len(toresolve_package_names)
    /\ LET pn == toresolve_package_names[pn_index]
       IN  IF dependencies_resolved(pd[pn].uses, resolved_package_names)
           THEN Let(pd_pn_resolve(pd[pn], resolved_pd), LAMBDA resolved_package:
                    IF ~resolved_package.ok
                    THEN /\ pc' = "resolve raised"
                         /\ UNCHANGED <<resolved_pd, resolved_package_names,
                                        any_resolved, pn_index>>
                    ELSE /\ any_resolved' = TRUE
                         /\ resolved_package_names' = Append(resolved_package_names, pn)
                         /\ resolved_pd' =
                               [n \in DOMAIN resolved_pd \cup {pn} |->
                                   IF n = pn THEN resolved_package.v ELSE resolved_pd[n]]
                         /\ pn_index' = pn_index + 1
                         /\ pc' = "for")
           ELSE /\ pn_index' = pn_index + 1
                /\ pc' = "for"
                /\ UNCHANGED <<resolved_pd, resolved_package_names, any_resolved>>
    /\ UNCHANGED <<pd, toresolve_package_names>>
    /\ UNCHANGED <<codecVars, entityVars, resolverVars, resolveVars, mathVars,
                   exceptPackages>>

\* After the for loop: the names that are resolved leave
\* toresolve_package_names, and a pass that resolved nothing raises.
EndOfPass ==
    /\ pc = "for"
    /\ pn_index > Len(toresolve_package_names)
    /\ toresolve_package_names' =
          SelectSeq(toresolve_package_names,
                    LAMBDA x : \A i \in 1..Len(resolved_package_names) :
                                  resolved_package_names[i] # x)
    /\ pc' = IF ~any_resolved THEN "raised" ELSE "while"
    /\ UNCHANGED <<pd, resolved_pd, resolved_package_names,
                   any_resolved, pn_index>>
    /\ UNCHANGED <<codecVars, entityVars, resolverVars, resolveVars, mathVars,
                   exceptPackages>>

NextPackages == While \/ ForPn \/ EndOfPass
SpecPackages == InitPackages /\ [][NextPackages]_vars
\* resolve_packages runs on: no step that can be taken is put off for ever.
SpecPackagesRun == SpecPackages /\ WF_vars(NextPackages)

(***************************************************************************)
(* SpecLoop, event.EventLoop.run_forever.  A handle is the number it was   *)
(* made with: handles counts the calls of call_soon, immediate is the      *)
(* deque self._immediate, exc is self._exc, ReadOnly_all_futures and       *)
(* RisingEdge_all_futures are the deques of the two classes (a future is   *)
(* the task that awaits it) and ran the handles that have run.  A callback *)
(* that runs is one step of a task: it returns, calls call_soon, awaits a  *)
(* new ReadOnly or RisingEdge, or ends its task with an exception, which   *)
(* the wrapper of create_task puts in self._exc.  steps counts the steps   *)
(* of the simulator and at_step is self._immediate as it was at the last   *)
(* one.                                                                    *)
(***************************************************************************)
MaxHandles == 6
MaxSteps == 3
\* The callbacks of the tasks made before run_forever is called.
FirstHandles == {<<1>>, <<1, 2>>}
\* What self._exc may hold.
Exceptions == {"TerminateException", "Exception"}

\* A loop that runs no handle.
while_immediate_never(deque) == FALSE
\* while self._immediate
while_immediate(deque) == deque # <<>>

\* loop.call_soon(callback): the handle goes to the end of the deque.
call_soon(deque, handle) == Append(deque, handle)
\* call_soon for each of n futures that get their result: the callback of
\* the task that awaits the future, numbered from made + 1.
RECURSIVE resolve_all(_, _, _)
resolve_all(all_futures, deque, made) ==
    IF all_futures = <<>> THEN deque
    ELSE resolve_all(Tail(all_futures), call_soon(deque, made + 1), made + 1)

InitLoop ==
    /\ pc = "tasks before step"
    /\ immediate \in FirstHandles
    /\ handles = Len(immediate)
    /\ exc = None
    /\ terminated = FALSE
    /\ ReadOnly_all_futures = <<>>
    /\ RisingEdge_all_futures = <<>>
    /\ ran = {}
    /\ steps = 0
    /\ at_step = <<>>
    /\ typ = None /\ generics = None /\ data = None /\ slv = None /\ decoded = None
    /\ entity_ports = <<>> /\ line = <<>> /\ outputs = None
    /\ NoResolver
    /\ NoResolve
    /\ NoMath
    /\ NoneButEvents

\* The handles made and the futures that wait: each future makes a handle
\* when it gets its result.
HandlesToCome == handles + Len(ReadOnly_all_futures) + Len(RisingEdge_all_futures)

\* One turn of the while loop of run_non_simulation_tasks: h is popped and
\* run, then self._exc is looked at.
RunHandle ==
    /\ pc \in {"tasks before step", "tasks after step"}
    /\ while_immediate(immediate)
    /\ LET h == Head(immediate)
       IN  /\ ran' = ran \cup {h}
           /\ \/ /\ immediate' = Tail(immediate)
                 /\ UNCHANGED <<handles, exc, ReadOnly_all_futures,
                                RisingEdge_all_futures>>
              \/ /\ HandlesToCome < MaxHandles
                 /\ immediate' = call_soon(Tail(immediate), handles + 1)
                 /\ handles' = handles + 1
                 /\ UNCHANGED <<exc, ReadOnly_all_futures, RisingEdge_all_futures>>
              \/ /\ HandlesToCome < MaxHandles
                 /\ immediate' = Tail(immediate)
                 /\ ReadOnly_all_futures' = Append(ReadOnly_all_futures, h)
                 /\ UNCHANGED <<handles, exc, RisingEdge_all_futures>>
              \/ /\ HandlesToCome < MaxHandles
                 /\ immediate' = Tail(immediate)
                 /\ RisingEdge_all_futures' = Append(RisingEdge_all_futures, h)
                 /\ UNCHANGED <<handles, exc, ReadOnly_all_futures>>
              \/ /\ immediate' = Tail(immediate)
                 /\ exc' \in {PyStr(e) : e \in Exceptions}
                 /\ UNCHANGED <<handles, ReadOnly_all_futures, RisingEdge_all_futures>>
    /\ IF exc' = None THEN UNCHANGED <<terminated, pc>>
       ELSE IF exc' = PyStr("TerminateException")
            THEN terminated' = TRUE /\ UNCHANGED pc
       ELSE pc' = "raised" /\ UNCHANGED terminated
    /\ UNCHANGED <<steps, at_step>>
    /\ UNCHANGED <<codecVars, entityVars, resolverVars, resolveVars, mathVars,
                   exceptEvents>>

\* run_non_simulation_tasks returns: the break, or what comes next.
TasksRun ==
    /\ pc \in {"tasks before step", "tasks after step"}
    /\ ~while_immediate(immediate)
    /\ pc' = IF terminated THEN "stopped"
             ELSE IF pc = "tasks before step" THEN "step"
             ELSE "rising edge"
    /\ UNCHANGED eventVars
    /\ UNCHANGED <<codecVars, entityVars, resolverVars, resolveVars, mathVars,
                   exceptEvents>>

\* dut.update_in(); simulator.step(); dut.update_out();
\* ReadOnly.resolve_all(); dut.lock()
SimulatorStep ==
    /\ pc = "step"
    /\ steps < MaxSteps
    /\ steps' = steps + 1
    /\ at_step' = immediate
    /\ immediate' = resolve_all(ReadOnly_all_futures, immediate, handles)
    /\ handles' = handles + Len(ReadOnly_all_futures)
    /\ ReadOnly_all_futures' = <<>>
    /\ pc' = "tasks after step"
    /\ UNCHANGED <<exc, terminated, RisingEdge_all_futures, ran>>
    /\ UNCHANGED <<codecVars, entityVars, resolverVars, resolveVars, mathVars,
                   exceptEvents>>

\* RisingEdge.resolve_all(); dut.unlock()
ResolveRisingEdge ==
    /\ pc = "rising edge"
    /\ immediate' = resolve_all(RisingEdge_all_futures, immediate, handles)
    /\ handles' = handles + Len(RisingEdge_all_futures)
    /\ RisingEdge_all_futures' = <<>>
    /\ pc' = "tasks before step"
    /\ UNCHANGED <<exc, terminated, ReadOnly_all_futures, ran, steps, at_step>>
    /\ UNCHANGED <<codecVars, entityVars, resolverVars, resolveVars, mathVars,
                   exceptEvents>>

NextLoop == RunHandle \/ TasksRun \/ SimulatorStep \/ ResolveRisingEdge
SpecLoop == InitLoop /\ [][NextLoop]_vars

(***************************************************************************)
(* SpecHelpers, cocotb_helper.TaskHelper and KillableEvent.  Helpers and   *)
(* events are numbered as they are made, helper 1 being the one of the     *)
(* test: child_helpers[h] and events[h] are the list and the set of        *)
(* helper h, killed[h] its _killed, event_killed[e] the _killed of event   *)
(* e, awaited the pairs (helper, new helper) of the calls of add whose     *)
(* coroutine has not returned, started the number of coroutines started,   *)
(* last_call the last method called and outcome what it returned or        *)
(* raised.                                                                 *)
(***************************************************************************)
MaxHelpers == 3
MaxEvents == 1

\* The loop of kill and of finish over the events of a helper.
kill_events(event_killed_, the_events) ==
    [e \in DOMAIN event_killed_ |-> event_killed_[e] \/ e \in the_events]
\* A kill that leaves the child helpers alone.
kill_self_only(st, h) ==
    [killed |-> [st.killed EXCEPT ![h] = TRUE],
     event_killed |-> kill_events(st.event_killed, events[h])]
\* TaskHelper.kill on helper h, st being the _killed of the helpers and of
\* the events: self._killed = True, then kill on every child helper, then
\* kill on every event.
RECURSIVE kill(_, _), kill_helpers(_, _)
kill(st, h) ==
    Let(kill_helpers([st EXCEPT !.killed[h] = TRUE], child_helpers[h]), LAMBDA after:
        [after EXCEPT !.event_killed = kill_events(@, events[h])])
\* for helper in helpers: helper.kill()
kill_helpers(st, helpers) ==
    IF helpers = <<>> THEN st
    ELSE kill_helpers(kill(st, Head(helpers)), Tail(helpers))

InitHelpers ==
    /\ pc = "test"
    /\ child_helpers = <<<<>>>>
    /\ events = <<{}>>
    /\ killed = <<FALSE>>
    /\ event_killed = <<>>
    /\ awaited = {}
    /\ started = 0
    /\ last_call = None
    /\ outcome = None
    /\ typ = None /\ generics = None /\ data = None /\ slv = None /\ decoded = None
    /\ entity_ports = <<>> /\ line = <<>> /\ outputs = None
    /\ NoResolver
    /\ NoResolve
    /\ NoMath
    /\ NoneButHelpers

MethodCall(method, h) == [method |-> method, helper |-> h]
\* A new TaskHelper, the child of h.
NewHelper(h) ==
    /\ child_helpers' = Append([child_helpers EXCEPT ![h] = Append(@, Len(killed) + 1)],
                               <<>>)
    /\ events' = Append(events, {})
    /\ killed' = Append(killed, FALSE)

\* helper.fork(needs_helper)
Fork ==
    \E h \in DOMAIN killed :
        /\ Len(killed) < MaxHelpers
        /\ last_call' = MethodCall("fork", h)
        /\ IF ~killed[h]
           THEN /\ NewHelper(h)
                /\ started' = started + 1
                /\ outcome' = Ok(Len(killed) + 1)
           ELSE /\ outcome' = Raise("KilledError")
                /\ UNCHANGED <<child_helpers, events, killed, started>>
        /\ UNCHANGED <<pc, event_killed, awaited>>
        /\ UNCHANGED <<codecVars, entityVars, resolverVars, resolveVars, mathVars,
                       exceptHelpers>>

\* await helper.add(needs_helper), up to await needs_helper(new_helper)
Add ==
    \E h \in DOMAIN killed :
        /\ Len(killed) < MaxHelpers
        /\ last_call' = MethodCall("add", h)
        /\ IF ~killed[h]
           THEN /\ NewHelper(h)
                /\ started' = started + 1
                /\ awaited' = awaited \cup {<<h, Len(killed) + 1>>}
                /\ outcome' = None
           ELSE /\ outcome' = Raise("KilledError")
                /\ UNCHANGED <<child_helpers, events, killed, started, awaited>>
        /\ UNCHANGED <<pc, event_killed>>
        /\ UNCHANGED <<codecVars, entityVars, resolverVars, resolveVars, mathVars,
                       exceptHelpers>>

\* add after needs_helper(new_helper) has returned
AddReturns ==
    \E pair \in awaited :
        /\ awaited' = awaited \ {pair}
        /\ last_call' = MethodCall("add returns", pair[1])
        /\ outcome' = IF killed[pair[1]] THEN Raise("KilledError") ELSE Ok(None)
        /\ UNCHANGED <<pc, child_helpers, events, killed, event_killed, started>>
        /\ UNCHANGED <<codecVars, entityVars, resolverVars, resolveVars, mathVars,
                       exceptHelpers>>

\* helper.Event()
Event ==
    \E h \in DOMAIN killed :
        /\ Len(event_killed) < MaxEvents
        /\ events' = [events EXCEPT ![h] = @ \cup {Len(event_killed) + 1}]
        /\ event_killed' = Append(event_killed, FALSE)
        /\ last_call' = MethodCall("Event", h)
        /\ outcome' = Ok(Len(event_killed) + 1)
        /\ UNCHANGED <<pc, child_helpers, killed, awaited, started>>
        /\ UNCHANGED <<codecVars, entityVars, resolverVars, resolveVars, mathVars,
                       exceptHelpers>>

\* KillableEvent.wait after self.event.wait() has returned, for an event
\* that is still in the set of its helper.
WaitReturns ==
    \E h \in DOMAIN killed : \E e \in events[h] :
        /\ last_call' = MethodCall("wait", h)
        /\ IF event_killed[e]
           THEN /\ outcome' = Raise("KilledError")
                /\ UNCHANGED events
           ELSE /\ events' = [events EXCEPT ![h] = @ \ {e}]
                /\ outcome' = Ok(None)
        /\ UNCHANGED <<pc, child_helpers, killed, event_killed, awaited, started>>
        /\ UNCHANGED <<codecVars, entityVars, resolverVars, resolveVars, mathVars,
                       exceptHelpers>>

\* helper.kill()
Kill ==
    \E h \in DOMAIN killed :
        /\ Let(kill([killed |-> killed, event_killed |-> event_killed], h), LAMBDA st:
               /\ killed' = st.killed
               /\ event_killed' = st.event_killed)
        /\ last_call' = MethodCall("kill", h)
        /\ outcome' = Ok(None)
        /\ UNCHANGED <<pc, child_helpers, events, awaited, started>>
        /\ UNCHANGED <<codecVars, entityVars, resolverVars, resolveVars, mathVars,
                       exceptHelpers>>

\* helper.finish()
Finish ==
    \E h \in DOMAIN killed :
        /\ Let(kill_helpers([killed |-> killed, event_killed |-> event_killed],
                            child_helpers[h]), LAMBDA st:
               /\ killed' = st.killed
               /\ event_killed' = kill_events(st.event_killed, events[h]))
        /\ last_call' = MethodCall("finish", h)
        /\ outcome' = Ok(None)
        /\ UNCHANGED <<pc, child_helpers, events, awaited, started>>
        /\ UNCHANGED <<codecVars, entityVars, resolverVars, resolveVars, mathVars,
                       exceptHelpers>>

NextHelpers == Fork \/ Add \/ AddReturns \/ Event \/ WaitReturns \/ Kill \/ Finish
SpecHelpers == InitHelpers /\ [][NextHelpers]_vars

(***************************************************************************)
(* Claims about the codec of a type.                                       *)
(***************************************************************************)
\* Every str in the value is in lower case, as the literals an Enumeration
\* keeps and returns are.
RECURSIVE LowerCase(_)
LowerCase(v) ==
    CASE v.t = "str" -> v.v = Lower(v.v)
      [] v.t = "list" -> \A i \in 1..Len(v.v) : LowerCase(v.v[i])
      [] v.t = "dict" -> \A n \in DOMAIN v.v : LowerCase(v.v[n])
      [] OTHER -> TRUE

\* C1: for every type, generics and legal value with no undefined (None)
\* component, from_slv(to_slv(v, g), g) returns v.
C1_RoundTrip ==
    (pc = "decoded" /\ Defined(data) /\ LowerCase(data)) => decoded = Ok(data)

\* C3: the length of to_slv(v, g), for every value to_slv accepts (None
\* included), is the value of the type's width with g substituted.
C3_LengthIsWidth ==
    (pc # "start" /\ slv.ok) =>
        Len(slv.v) = apply_generics(generics, typ.width).v
\* A record with an undefined component and a width that depends on the
\* generic has been encoded to a string that is not empty.
C3_Witness ==
    /\ pc = "encoded"
    /\ slv.ok
    /\ typ.kind = "record"
    /\ typ.width.k = "add"
    /\ ~Defined(data)
    /\ Len(slv.v) > 2

\* The encoding of value v of type t on its own.
Enc(t, v) == to_slv(t, v, generics, TRUE).v
\* The width of type t in characters.
WidthOf(t) == apply_generics(generics, t.width).v
\* The characters of string s that are width long and end offset characters
\* before the end of s.
FromEnd(s, offset, width) == SubSeq(s, Len(s) - offset - width + 1, Len(s) - offset)

\* The widths of the fields of nas before field i, added up.
RECURSIVE WidthBefore(_, _)
WidthBefore(nas, i) ==
    IF i = 1 THEN 0 ELSE WidthBefore(nas, i - 1) + WidthOf(nas[i - 1].subtype)

\* C4: a record's encoding is its last field's encoding first and its first
\* field's last, and decoding gives each field, in declaration order, the
\* value of the next width characters from the end of the string (and fails
\* when the decoding of one of these pieces fails).
C4_RecordOrder ==
    (typ.kind = "record" /\ data # None) =>
        LET nas == typ.names_and_subtypes
            Piece(i) == FromEnd(slv.v, WidthBefore(nas, i), WidthOf(nas[i].subtype))
        IN  /\ (pc # "start" /\ slv.ok) =>
                  /\ Len(slv.v) = WidthBefore(nas, Len(nas) + 1)
                  /\ \A i \in 1..Len(nas) :
                        Piece(i) = Enc(nas[i].subtype, data.v[nas[i].name])
            /\ pc = "decoded" =>
                  IF \A i \in 1..Len(nas) : from_slv(nas[i].subtype, Piece(i), generics).ok
                  THEN /\ decoded.ok
                       /\ \A i \in 1..Len(nas) :
                             Ok(decoded.v.v[nas[i].name]) =
                                 from_slv(nas[i].subtype, Piece(i), generics)
                  ELSE ~decoded.ok
\* A record of two fields of different widths, neither empty, was decoded.
C4_Witness ==
    /\ pc = "decoded"
    /\ decoded.ok
    /\ typ.kind = "record"
    /\ data # None
    /\ Len(typ.names_and_subtypes) = 2
    /\ WidthOf(typ.names_and_subtypes[1].subtype) = 1
    /\ WidthOf(typ.names_and_subtypes[2].subtype) = 2
    /\ decoded.v.v["a"] # decoded.v.v["b"]

C2_EntityRoundTrip ==
    (entity_ports # <<>> /\ pc \in {"decoded", "done"} /\ Defined(data))
        => decoded = Ok(data)

\* The Record the ports of a direction that are no clocks make.
InRecord == PortsRecord(SelectPorts(entity_ports, "in"))
OutRecord == PortsRecord(SelectPorts(entity_ports, "out"))

\* C6: the encoding of an entity is the Record rule on its ports:
\* inputs_to_slv(d, g) is what the Record of the input ports gives for d,
\* and outputs_from_slv(s, g) is what the Record of the output ports decodes
\* from s, here for the strings s that have the width of the output ports.
C6_EntityIsRecord ==
    /\ (entity_ports # <<>> /\ pc # "start")
          => slv = to_slv(InRecord, data, generics, TRUE)
    /\ (entity_ports # <<>> /\ pc = "done"
        /\ Len(Strip(line)) = apply_generics(generics, OutRecord.width).v)
          => outputs = from_slv(OutRecord, Strip(line), generics)


(***************************************************************************)
(* Claims about resolve_dependencies, under SpecResolver.                  *)
(***************************************************************************)
\* The items resolve_function has been invoked for.
Called == {calls[i].name : i \in 1..Len(calls)}

\* The items on a cycle of two: each depends on the other.
OnCycle ==
    {A \in Items : \E B \in Items \ {A} :
        B \in dependencies[A] /\ A \in dependencies[B]}

\* What is left to do: the names left, then the place in the pass.
Measure ==
    LET K == Cardinality(Items) + 3
    IN  CASE pc = "while" -> Cardinality(unresolved_names) * K + K - 1
          [] pc = "for" -> Cardinality(unresolved_names) * K + Cardinality(todo) + 1
          [] OTHER -> 0

RECURSIVE ResolvableFrom(_)
ResolvableFrom(R) ==
    LET more == {n \in Items : /\ n \notin raising
                               /\ dependencies[n] \subseteq available \cup R}
    IN  IF more \subseteq R THEN R ELSE ResolvableFrom(R \cup more)

\* C8: in both implementations an exception of resolve_function does not
\* leave resolve_dependencies: the item is recorded in failed, and every
\* item that can be resolved with no error is in resolved at the end.
C8_ExceptionsAreCaught ==
    /\ pc # "raised"
    /\ pc = "returned" =>
          /\ Called \cap raising \subseteq failed
          /\ ResolvableFrom({}) \subseteq resolved

\* C9: at every invocation of resolve_function the dependencies of the item
\* are in available_names, each is a key of the mapping passed, and each was
\* available at the start or is an item an earlier invocation resolved.
C9_CalledWhenAvailable ==
    \A i \in 1..Len(calls) :
        LET c == calls[i]
        IN  /\ dependencies[c.name] \subseteq c.available_names
            /\ dependencies[c.name] \subseteq c.mapping
            /\ \A d \in dependencies[c.name] :
                  \/ d \in available
                  \/ \E j \in 1..(i - 1) : calls[j].name = d /\ d \notin raising
\* resolve_function was invoked for an item with a dependency available at
\* the start and a dependency resolved before.
C9_Witness ==
    \E i \in 1..Len(calls) :
        /\ dependencies[calls[i].name] \cap available # {}
        /\ dependencies[calls[i].name] \cap Items # {}
        /\ calls[i].name \in resolved

\* The items that depend on an item of F, through any number of items.
RECURSIVE DependOn(_, _)
DependOn(F, found) ==
    LET more == {n \in Items : dependencies[n] \cap (F \cup found) # {}}
    IN  IF more \subseteq found THEN found ELSE DependOn(F, found \cup more)

\* C10: resolve_function is never invoked for an item that depends on an
\* item in failed, directly or through other items, and at the end every
\* such item is in failed.
C10_CascadingFailure ==
    \A n \in DependOn(failed, {}) :
        /\ n \notin Called
        /\ n \notin resolved
        /\ pc = "returned" => n \in failed
\* resolve_function raised for one item; a second item depends on it and a
\* third on the second only: both are in failed and were never invoked.
C10_Witness ==
    /\ pc = "returned"
    /\ \E r \in raising \cap Called : \E m \in Items \ {r} : \E n \in Items \ {r, m} :
          /\ dependencies[m] = {r} \cup available
          /\ dependencies[n] = {m}
          /\ {m, n} \subseteq failed \ Called
          /\ available # {}

\* C11: every iteration of the while loop ends with fewer unresolved names
\* than it began with, and resolve_dependencies makes at most as many
\* iterations as there are unresolved items, whatever the dependencies and
\* whatever resolve_function does.
C11_PassesShrink ==
    /\ [][(pc = "for" /\ pc' = "while") =>
             /\ unresolved_names' \subseteq unresolved_names
             /\ unresolved_names' # unresolved_names]_vars
    /\ [](passes + (IF pc = "while" THEN Cardinality(unresolved_names) ELSE 0)
             <= Cardinality(Items))
\* The function has returned after as many iterations as there are items.
C11_Witness ==
    /\ pc = "returned"
    /\ passes = Cardinality(Items)
    /\ implementation = "resolution"

(***************************************************************************)
(* Claims about decoding on its own, under SpecDecode.                     *)
(***************************************************************************)
\* C12: a string that is longer or shorter than the width of the type (of
\* the ports of the direction, for an entity) is decoded to no value:
\* from_slv, inputs_from_slv and outputs_from_slv fail on it.
C12_WrongLengthRejected ==
    /\ (pc = "decoded" /\ Len(slv.v) # WidthOf(typ)) => ~decoded.ok
    /\ (pc = "decoded_inputs" /\ Len(slv.v) # WidthOf(InRecord)) => ~decoded.ok
    /\ (pc = "decoded_outputs" /\ Len(slv.v) # WidthOf(OutRecord)) => ~outputs.ok

(***************************************************************************)
(* Claims about to_slv on data of any shape, under SpecShapes.             *)
(***************************************************************************)
\* The data v for type t has, at some depth, a list of a wrong length or an
\* int in the place of an array, or a dict with a key that is no field in
\* the place of a record.
RECURSIVE HasMismatch(_, _)
HasMismatch(t, v) ==
    CASE t.kind = "array" ->
            \/ v.t = "int"
            \/ /\ v.t = "list"
               /\ \/ Len(v.v) # apply_generics(generics, t.size).v
                  \/ \E i \in 1..Len(v.v) : HasMismatch(t.subtype, v.v[i])
      [] t.kind = "record" ->
            /\ v.t = "dict"
            /\ \E n \in DOMAIN v.v :
                  \A i \in 1..Len(t.names_and_subtypes) :
                      t.names_and_subtypes[i].name = n =>
                          HasMismatch(t.names_and_subtypes[i].subtype, v.v[n])
      [] OTHER -> FALSE

\* C13: to_slv of data with a list of a wrong length (or an int) for a
\* constrained array, or with an unknown key for a record, raises ToSlvError
\* and gives no string.
C13_MismatchFails ==
    (pc = "encoded" /\ HasMismatch(typ, data)) => slv = Raise("ToSlvError")
\* to_slv has raised for a list that is too long, and for a dict with a key
\* that is no field inside the element of an array.
C13_Witness ==
    /\ pc = "encoded"
    /\ typ.kind = "array"
    /\ slv = Raise("ToSlvError")
    /\ data # None
    /\ data.t = "list"
    /\ Len(data.v) = 2
    /\ apply_generics(generics, typ.size).v = 1
    /\ ~HasMismatch(typ.subtype, data.v[1])
    /\ ~HasMismatch(typ.subtype, data.v[2])

\* A dict in v, at some depth, is without one of the fields of its record.
RECURSIVE OmitsField(_, _)
OmitsField(t, v) ==
    CASE t.kind = "array" ->
            v.t = "list" /\ \E i \in 1..Len(v.v) : OmitsField(t.subtype, v.v[i])
      [] t.kind = "record" ->
            /\ v.t = "dict"
            /\ \E i \in 1..Len(t.names_and_subtypes) :
                  LET f == t.names_and_subtypes[i]
                  IN  \/ f.name \notin DOMAIN v.v
                      \/ f.name \in DOMAIN v.v /\ OmitsField(f.subtype, v.v[f.name])
      [] OTHER -> FALSE

\* C14: Record.to_slv of a dict without one of the declared fields raises
\* ToSlvError and gives no string.
C14_MissingFieldFails ==
    (pc = "encoded" /\ OmitsField(typ, data)) => slv = Raise("ToSlvError")

\* C14 as the code has it: Record.to_slv of a dict without some of the
\* declared fields (and with nothing else wrong in it) gives a string, in
\* which each field that is not in the dict is encoded as undefined, 'U'
\* for each of its characters, and each field that is in it as its value.
C14_MissingFieldIsUndefined ==
    (/\ pc = "encoded"
     /\ typ.kind = "record"
     /\ data # None
     /\ ~HasMismatch(typ, data)) =>
        LET nas == typ.names_and_subtypes
            Piece(i) == FromEnd(slv.v, WidthBefore(nas, i), WidthOf(nas[i].subtype))
        IN  /\ slv.ok
            /\ Len(slv.v) = WidthOf(typ)
            /\ \A i \in 1..Len(nas) :
                  Piece(i) = IF nas[i].name \in DOMAIN data.v
                             THEN Enc(nas[i].subtype, data.v[nas[i].name])
                             ELSE Repeat("U", WidthOf(nas[i].subtype))
\* A record of two fields has been encoded from a dict with the second
\* field only, the first being one character wide at least.
C14_Witness ==
    /\ pc = "encoded"
    /\ typ.kind = "record"
    /\ data # None
    /\ DOMAIN data.v = {"b"}
    /\ Defined(data)
    /\ WidthOf(typ.names_and_subtypes[1].subtype) >= 1
    /\ WidthOf(typ.names_and_subtypes[2].subtype) >= 1
    /\ slv.ok

(***************************************************************************)
(* Claims about to_slv of a vector on any int, under SpecVector.           *)
(***************************************************************************)
\* C15: to_slv of a std_logic_vector or unsigned of width w, for an int v
\* from 0 to 2^w - 1, is the w characters of v in binary, the most
\* significant first; for any other int it raises ToSlvError.
C15_UnsignedEncoding ==
    pc = "encoded" =>
        Let(WidthOf(typ), LAMBDA w:
        LET v == data.v
        IN  IF 0 <= v /\ v <= Pow2(w) - 1
            THEN /\ slv.ok
                 /\ Len(slv.v) = w
                 /\ \A i \in 1..w :
                       slv.v[i] = IF (v \div Pow2(w - i)) % 2 = 1 THEN "1" ELSE "0"
            ELSE slv = Raise("ToSlvError"))
\* 2 has been encoded as "10" for a width of 2 that the generic gives.
C15_Witness ==
    /\ pc = "encoded"
    /\ typ.size = length
    /\ WidthOf(typ) = 2
    /\ data = PyInt(2)
    /\ slv = Ok(<<"1", "0">>)

(***************************************************************************)
(* Claims about the resolution of entities and packages.                   *)
(***************************************************************************)
\* The last call resolved an entity.
ResolvedEntity == pc = "resolved" /\ unresolved.cls = "UnresolvedEntity"

\* The ports of the entity as declared.
DeclaredPorts == constructed[unresolved.ports]

\* The types and constants the ports are resolved with in the last call, or
\* the exception raised before the first port is looked at.
Scope ==
    Let(resolve_uses(constructed, unresolved.uses, call.packages,
                     call.must_resolve), LAMBDA u:
    Let(combine_packages(u.h, UsedPackages(u.h[u.r.v])), LAMBDA c:
    Let(exclusive_dict_merge(c.h, c.r.v.constants, unresolved.generics), LAMBDA m:
        IF ~u.r.ok THEN u.r
        ELSE IF ~c.r.ok THEN c.r
        ELSE IF ~m.r.ok THEN m.r
        ELSE Ok([types |-> c.h[c.r.v.types], constants |-> m.h[m.r.v]]))))

TypeOfPort(i) ==
    resolved_typ(DeclaredPorts[i].val, Scope.v.types, Scope.v.constants)
Unconstrained(i) == TypeOfPort(i).ok /\ unconstrained(TypeOfPort(i).v)
\* The resolution of port i fails with a ResolutionError, with another
\* exception, at all.
FailsResolution(i) ==
    \/ Unconstrained(i)
    \/ ~TypeOfPort(i).ok /\ TypeOfPort(i).err.type = "ResolutionError"
FailsOtherwise(i) ==
    ~TypeOfPort(i).ok /\ TypeOfPort(i).err.type # "ResolutionError"
Fails(i) == FailsResolution(i) \/ FailsOtherwise(i)

KeptPorts ==
    LET Kept(entry) ==
            Let(resolved_typ(entry.val, Scope.v.types, Scope.v.constants), LAMBDA t:
                t.ok /\ ~unconstrained(t.v))
    IN  SelectSeq(DeclaredPorts, Kept)

\* C17: in best-effort mode resolve raises no ResolutionError for a port;
\* the Entity it returns holds, in declaration order, the ports whose
\* resolution does not fail with a ResolutionError, each with its resolved
\* type.  (It returns one unless an exception of another class is raised.)
C17_BestEffortOmits ==
    (ResolvedEntity /\ ~call.must_resolve) =>
        /\ ~result.ok => result.err.type # "ResolutionError"
        /\ result.ok <=>
              (Scope.ok /\ \A i \in 1..Len(DeclaredPorts) : ~FailsOtherwise(i))
        /\ result.ok =>
              /\ Len(result.v.ports) = Len(KeptPorts)
              /\ \A i \in 1..Len(KeptPorts) :
                    /\ result.v.ports[i].key = KeptPorts[i].key
                    /\ result.v.ports[i].val =
                          Port(KeptPorts[i].val.name, KeptPorts[i].val.direction,
                               resolved_typ(KeptPorts[i].val, Scope.v.types,
                                            Scope.v.constants).v)

\* Of the ports a, b and c, b is a bare std_logic_vector: a and c are kept,
\* in that order.
C17_Witness ==
    /\ ResolvedEntity
    /\ ~call.must_resolve
    /\ Len(DeclaredPorts) = 3
    /\ DeclaredPorts[1].val.typ = UnresolvedConstrainedStdLogicVector(Name("g"))
    /\ DeclaredPorts[2].val.typ = TypeName("std_logic_vector")
    /\ DeclaredPorts[3].val.typ = TypeName("std_logic")
    /\ result.ok
    /\ result.v.ports =
          <<Entry("a", Port("a", "in", ConstrainedStdLogicVector(Generic("g")))),
            Entry("c", Port("c", "in", StdLogic))>>

\* What the last call gives on the heap as constructed.
Fresh ==
    IF unresolved.cls = "UnresolvedEntity"
    THEN ResultOf(UnresolvedEntity_resolve(constructed, unresolved, call.packages,
                                           call.must_resolve))
    ELSE ResultOf(UnresolvedPackage_resolve(constructed, unresolved, call.packages,
                                            hash_order))

\* C18: a resolve leaves every dict it was given as it was constructed (the
\* types, constants, generics, ports and uses of the unresolved object, the
\* mappings of packages and the dicts of the packages), so that a resolve
\* after others gives what it gives on the objects as constructed.
C18_InputsUnchanged ==
    /\ heap = constructed
    /\ pc = "resolved" => result = Fresh

\* A second resolve of a package two of whose constants and two of whose
\* types are resolved with the constants and types of two packages.
C18_Witness ==
    /\ pc = "resolved"
    /\ unresolved.cls = "UnresolvedPackage"
    /\ call.again
    /\ call.packages = Layout.packages
    /\ result.ok
    /\ Len(result.v.uses) = 2
    /\ Len(result.v.constants) = 2
    /\ Len(result.v.types) = 2

(***************************************************************************)
(* Claims about math_parser.                                               *)
(***************************************************************************)
\* C19: simplify is idempotent: whenever simplify(e) returns, for e a tree
\* of Addition, Multiplication and Function over names and integers or an
\* expression parse_string returned, simplify(simplify(e)) returns the very
\* same tree (same classes, same numbers, ints and floats told apart).
C19_SimplifyIdempotent ==
    pc = "resimplified" => resimplified = simplified

\* x / 2 is parsed, simplify turns it into the Addition of the one Term
\* 0.5 * x, and simplifying that again returns it as it is.
C19_Witness ==
    /\ pc = "resimplified"
    /\ text = PyStr(<<Name("x"), Name("/"), Num(2)>>)
    /\ parsed = Multiplication(<<Power(1, Name("x")), Power(-1, Num(2))>>)
    /\ simplified = Addition(<<Term(Float(1, 2), Name("x"))>>)
    /\ resimplified = simplified

\* C20: rendering preserves value: for every ground expression e that has
\* a value, parse_and_simplify(str_expression(e)) returns an expression of
\* the same value.
C20_RenderingPreservesValue ==
    (pc = "reparsed" /\ value(parsed).ok)
        => (~IsRaised(simplified) /\ value(simplified) = value(parsed))

RECURSIVE NoSumInSum(_)
NoSumInSum(item) ==
    CASE item.k = "add" ->
            \A i \in 1..Len(item.terms) :
                /\ item.terms[i].expression.k # "add"
                /\ NoSumInSum(item.terms[i].expression)
      [] item.k = "mul" ->
            \A i \in 1..Len(item.powers) : NoSumInSum(item.powers[i].expression)
      [] item.k \in {"term", "power"} -> NoSumInSum(item.expression)
      [] item.k = "function" ->
            \A i \in 1..Len(item.arguments) : NoSumInSum(item.arguments[i])
      [] OTHER -> TRUE
\* No Multiplication of the tree has a power whose expression is a
\* Multiplication.
RECURSIVE NoProductInProduct(_)
NoProductInProduct(item) ==
    CASE item.k = "mul" ->
            \A i \in 1..Len(item.powers) :
                /\ item.powers[i].expression.k # "mul"
                /\ NoProductInProduct(item.powers[i].expression)
      [] item.k = "add" ->
            \A i \in 1..Len(item.terms) : NoProductInProduct(item.terms[i].expression)
      [] item.k \in {"term", "power"} -> NoProductInProduct(item.expression)
      [] item.k = "function" ->
            \A i \in 1..Len(item.arguments) : NoProductInProduct(item.arguments[i])
      [] OTHER -> TRUE

\* C22: in what simplify returns no Addition has a term whose expression
\* is an Addition and no Multiplication has a power whose base is a
\* Multiplication.
C22_Flattened ==
    (pc = "simplified" /\ ~IsRaised(simplified))
        => (NoSumInSum(simplified) /\ NoProductInProduct(simplified))

(***************************************************************************)
(* Claims about parse_and_simplify on a linear expression, under           *)
(* SpecLinear.                                                             *)
(***************************************************************************)
\* The sum of the signed coefficients of an atom over the items, the factor
\* of an item distributed over its body.
RECURSIVE BodyCoefficient(_, _)
BodyCoefficient(body, atom) ==
    IF body = <<>> THEN 0
    ELSE (IF Head(body).atom = atom THEN Head(body).sign ELSE 0)
         + BodyCoefficient(Tail(body), atom)
RECURSIVE Coefficient(_, _)
Coefficient(items, atom) ==
    IF items = <<>> THEN 0
    ELSE Head(items).sign * Head(items).factor * BodyCoefficient(Head(items).body, atom)
         + Coefficient(Tail(items), atom)
Variables == {"x", "y"}
\* r holds the variables of the items with their coefficients: one term for
\* each variable of coefficient other than 0, one numeric term for a
\* constant other than 0, nothing else; a number when the items hold no
\* variable.
LikeTermsCombined(r, items) ==
    LET coefficient == [v \in Variables |-> Coefficient(items, Name(v))]
        constant == Coefficient(items, Num(1))
        numeric == \A i \in 1..Len(items) : \A j \in 1..Len(items[i].body) :
                        items[i].body[j].atom.k = "num"
    IN  CASE r.k = "num" ->
                /\ \A v \in Variables : coefficient[v] = 0
                /\ r.n = constant
          [] r.k = "name" ->
                /\ r.name \in Variables
                /\ \A v \in Variables : coefficient[v] = (IF v = r.name THEN 1 ELSE 0)
                /\ constant = 0
          [] r.k = "add" ->
                /\ ~numeric
                /\ \A i \in 1..Len(r.terms) :
                      /\ r.terms[i].number.k = "num"
                      /\ r.terms[i].number.n # 0
                      /\ CASE r.terms[i].expression.k = "name" ->
                                /\ r.terms[i].expression.name \in Variables
                                /\ r.terms[i].number.n
                                      = coefficient[r.terms[i].expression.name]
                           [] r.terms[i].expression.k = "num" ->
                                r.terms[i].number.n * r.terms[i].expression.n = constant
                           [] OTHER -> FALSE
                /\ \A v \in Variables : coefficient[v] # 0 =>
                      Cardinality({i \in 1..Len(r.terms) :
                                      r.terms[i].expression = Name(v)}) = 1
                /\ Cardinality({i \in 1..Len(r.terms) :
                                   r.terms[i].expression.k = "num"})
                      = (IF constant = 0 THEN 0 ELSE 1)
          [] OTHER -> FALSE

\* C23: parse_and_simplify combines the like terms of a linear expression:
\* every variable is in exactly one term of the result, with the sum of its
\* signed coefficients (integer factors distributed over parenthesised
\* sums), a variable of coefficient 0 and a constant 0 are dropped, an
\* all-numeric input gives one number; x + 8*y + 2*(x - y) is written
\* (3*x+6*y) or (6*y+3*x) and x + 1 - 1 is written x.
C23_LikeTermsCombined ==
    /\ pc \in {"out", "out_string"} => LikeTermsCombined(simplified, in_items)
    /\ (pc = "out_string" /\ in_items = FishAndBear) =>
          out_string \in
              {Ok(PyStr(<<Name("("), Num(3), Name("*"), Name("x"), Name("+"),
                          Num(6), Name("*"), Name("y"), Name(")")>>)),
               Ok(PyStr(<<Name("("), Num(6), Name("*"), Name("y"), Name("+"),
                          Num(3), Name("*"), Name("x"), Name(")")>>))}
    /\ (pc = "out_string"
        /\ text = PyStr(<<Name("x"), Name("+"), Num(1), Name("-"), Num(1)>>)) =>
          out_string = Ok(PyStr(<<Name("x")>>))
\* x + 2*(x + y) has been simplified to 3*x and 2*y: like terms are
\* combined over a distributed factor.
C23_Witness ==
    /\ pc = "out"
    /\ Len(in_items) = 2
    /\ in_items[2].paren /\ in_items[2].written /\ in_items[2].factor = 2
    /\ Coefficient(in_items, Name("x")) = 3
    /\ Coefficient(in_items, Name("y")) = 2
    /\ simplified.k = "add"
    /\ Len(simplified.terms) = 2

(***************************************************************************)
(* Claims about the messages of ToSlvError, under SpecErrors.              *)
(***************************************************************************)
\* The message names the entity and the port in its first part.
NamesPort(parts, at) ==
    /\ parts # <<>>
    /\ parts[1].names = {at.port}
    /\ parts[1].of = "simpleports"
\* The message names the field and the type of the record.
NamesElement(parts, at) ==
    \E i \in 2..Len(parts) :
        /\ parts[i].names = {at.field}
        /\ parts[i].of = "mixture_t"
\* The message has a part for the array that holds the index, between the
\* part of the port and the part of the record.
NamesIndex(parts, at) ==
    \E i \in 2..Len(parts) :
        /\ parts[i].what = "index"
        /\ \A j \in 2..(i - 1) : parts[j].what \notin {"Error in element", "Unknown element"}

\* C24: the ToSlvError inputs_to_slv raises for a bad port value holds the
\* path to the value: the field and the type of the record when the value
\* is in a record, the index when it is in an array, the port and the
\* entity.
C24_FullPath ==
    pc = "raised" =>
        /\ slv = Raise("ToSlvError")
        /\ NamesPort(message, place)
        /\ place.field # "" => NamesElement(message, place)
        /\ place.index # 0 => NamesIndex(message, place)

(***************************************************************************)
(* Claims about resolve_packages, under SpecPackagesRun.                   *)
(***************************************************************************)
StandardNames == {standard_packages[i] : i \in 1..Len(standard_packages)}
\* The names that can be resolved one after another, starting from done.
RECURSIVE Resolvable(_)
Resolvable(done) ==
    LET more == {n \in DOMAIN pd : pd[n].uses \subseteq done}
    IN  IF more \subseteq done THEN done ELSE Resolvable(done \cup more)
AllUsesSatisfiable == DOMAIN pd \subseteq Resolvable(StandardNames)
\* What the package of a name declares.
Declares(n) ==
    IF n \in DOMAIN pd THEN pd[n].types
    ELSE IF n \in StandardNames THEN BuiltinPackages[n].types
    ELSE {}
\* Some package uses two packages that declare the same name.
UsesClash ==
    \E n \in DOMAIN pd : \E u \in pd[n].uses, v \in pd[n].uses :
        u # v /\ Declares(u) \cap Declares(v) # {}
PackagesDone == pc \in {"returned", "raised", "resolve raised"}
\* Every name of resolved_package_names comes after the names its package
\* uses, the standard packages first.
ResolvedAfterUses ==
    /\ SubSeq(resolved_package_names, 1, Len(standard_packages)) = standard_packages
    /\ \A i \in (Len(standard_packages) + 1)..Len(resolved_package_names) :
          pd[resolved_package_names[i]].uses
              \subseteq {resolved_package_names[j] : j \in 1..(i - 1)}
\* What is returned holds every package given and the standard ones; the
\* exception of a pass is raised when the pass resolved nothing and names
\* are left.
ReturnedOrRaised ==
    /\ pc = "returned" => DOMAIN resolved_pd = DOMAIN pd \cup StandardNames
    /\ pc = "raised" =>
          /\ ~any_resolved
          /\ toresolve_package_names # <<>>
          /\ ~AllUsesSatisfiable
    /\ pc = "while" => (any_resolved \/ pn_index = 0)

C26_StepOnEmptyQueue ==
    /\ pc = "step" =>
          /\ immediate = <<>>
          /\ ran = 1..handles
    /\ at_step = <<>>
\* The second step is about to happen, and handles were made by futures
\* and by callbacks on the way.
C26_Witness ==
    /\ pc = "step"
    /\ steps = 1
    /\ handles >= 4
    /\ ran = 1..handles

(***************************************************************************)
(* Claims about the helpers of tasks, under SpecHelpers.                   *)
(***************************************************************************)
\* The helper and the helpers made from it by fork or add, and from those.
RECURSIVE Family(_)
Family(h) ==
    {h} \cup UNION {Family(child_helpers[h][i]) : i \in 1..Len(child_helpers[h])}
\* kill has just been called: the helper, the helpers of its family and
\* their pending events are killed.
FamilyKilledByKill ==
    (last_call # None /\ last_call.method = "kill") =>
        \A d \in Family(last_call.helper) :
            /\ killed[d]
            /\ \A e \in events[d] : event_killed[e]
\* The children of a killed helper are killed.
KilledChildren ==
    \A h \in DOMAIN killed : killed[h] =>
        \A i \in 1..Len(child_helpers[h]) : killed[child_helpers[h][i]]
\* What is killed is killed after the step.
StaysKilled ==
    /\ \A h \in DOMAIN killed : killed[h] => killed'[h]
    /\ \A e \in DOMAIN event_killed : event_killed[e] => event_killed'[e]
\* fork or add on a killed helper raises KilledError, makes no helper and
\* starts no coroutine.
KilledHelperMakesNone ==
    \A h \in DOMAIN killed :
        (killed[h] /\ last_call' \in {MethodCall("fork", h), MethodCall("add", h)}) =>
            /\ outcome' = Raise("KilledError")
            /\ started' = started
            /\ killed' = killed
            /\ child_helpers' = child_helpers

\* C27: after kill() the helper, every helper made from it by fork or add,
\* and from those, and every pending event made through one of them is
\* killed; what is killed stays killed; fork or add on a killed helper
\* raises KilledError and starts no coroutine.
C27_FamilyKilled ==
    /\ [](FamilyKilledByKill /\ KilledChildren)
    /\ [][StaysKilled /\ KilledHelperMakesNone]_vars
\* kill has been called on the first helper, which has a child, a
\* grandchild and, through the grandchild, a pending event.
C27_Witness ==
    /\ last_call = MethodCall("kill", 1)
    /\ child_helpers = <<<<2>>, <<3>>, <<>>>>
    /\ events[3] = {1}
    /\ killed = <<TRUE, TRUE, TRUE>>
    /\ event_killed = <<TRUE>>

(***************************************************************************)
(* Claims about what resolve_dependencies returns, under SpecResolver.     *)
(***************************************************************************)
\* C28: when resolve_dependencies returns, no item is a key of both resolved
\* and failed, every unresolved item is a key of one of them, and no key of
\* available is a key of either; the additions go to the copy
\* updated_available, and available is never modified.
C28_Partition ==
    /\ [](pc = "returned" =>
            /\ resolved \cap failed = {}
            /\ resolved \cup failed = Items
            /\ available \cap (resolved \cup failed) = {})
    /\ [](updated_available = available \cup resolved)
    /\ [][available' = available]_vars
\* resolution.resolve_dependencies has returned with an item resolved on an
\* available name, an item failed, and available as it was passed.
C28_Witness ==
    /\ pc = "returned"
    /\ implementation = "resolution"
    /\ available = External
    /\ \E n \in resolved : dependencies[n] = External
    /\ failed # {}
    /\ updated_available = External \cup resolved

\* C29: the for loop visits the unresolved names in any order, and whatever
\* the order resolve_dependencies returns the same keys: resolved is the set
\* of the items that can be resolved with no error, which the dependencies,
\* available and the items resolve_function raises for determine, and
\* failed is the set of all the other items.
C29_OrderIndependent ==
    pc = "returned" =>
        /\ resolved = ResolvableFrom({})
        /\ failed = Items \ ResolvableFrom({})
\* A chain of three items visited last dependency first: one pass resolves
\* them all, where the opposite order takes three.
C29_Witness ==
    /\ pc = "returned"
    /\ implementation = "resolution"
    /\ dependencies = [a |-> {"b"}, b |-> {"c"}, c |-> {}]
    /\ [i \in 1..Len(calls) |-> calls[i].name] = <<"c", "b", "a">>
    /\ passes = 1
    /\ resolved = Items

(***************************************************************************)
(* Claims about decoding strings of the width of the type, under           *)
(* SpecDecode.                                                             *)
(***************************************************************************)
\* Value v is what string s of the width of type t is to decode to: leaf by
\* leaf, None where the bits of the leaf have a 'U' and a legal value of
\* the leaf's type elsewhere; element i of an array and field i of a record
\* are taken from the end of the string.
RECURSIVE LeavesDecoded(_, _, _)
LeavesDecoded(t, s, v) ==
    CASE t.kind = "array" ->
            IF v.t # "list" THEN FALSE
            ELSE /\ Len(v.v) = apply_generics(generics, t.size).v
                 /\ \A i \in 1..Len(v.v) :
                       LeavesDecoded(t.subtype,
                                     FromEnd(s, (i - 1) * WidthOf(t.subtype),
                                             WidthOf(t.subtype)),
                                     v.v[i])
      [] t.kind = "record" ->
            IF v.t # "dict" THEN FALSE
            ELSE LET nas == t.names_and_subtypes
                 IN  /\ DOMAIN v.v = {nas[i].name : i \in 1..Len(nas)}
                     /\ \A i \in 1..Len(nas) :
                           LeavesDecoded(nas[i].subtype,
                                         FromEnd(s, WidthBefore(nas, i),
                                                 WidthOf(nas[i].subtype)),
                                         v.v[nas[i].name])
      [] OTHER ->
            IF \E i \in 1..Len(s) : s[i] = "U" THEN v = None
            ELSE v # None /\ v \in Values(t, generics)

\* C30: from_slv of a type on a string of '0', '1' and 'U' that has the
\* width of the type returns a value and raises nothing; in the value each
\* leaf with a 'U' in its bits is None and every other leaf is a legal
\* value of its type.
C30_DecodingTotal ==
    (pc = "decoded" /\ Len(slv.v) = WidthOf(typ)) =>
        /\ decoded.ok
        /\ LeavesDecoded(typ, slv.v, decoded.v)

====
